---------------------------- MODULE Spec2Model ----------------------------
(***************************************************************************)
(* State-machine model of the arbitrage engine's risk controller           *)
(* (src/src/risk/RiskManager.ts), execution pipeline                       *)
(* (src/unnamed/part_006, ExecutionManager) and main loop                  *)
(* (src/src/engine/ArbEngine.ts).                                          *)
(*                                                                         *)
(* Amounts of ETH are counted in units of 10^15 wei (0.001 ETH), so that   *)
(* parseEther("5") is 5000 and a 0.01 ETH loss is 10.  USD amounts that    *)
(* the code scales with parseEther use the same unit.                      *)
(***************************************************************************)
EXTENDS Integers, Sequences, FiniteSets, TLC

(***************************************************************************)
(* Bounds of the model.                                                    *)
(***************************************************************************)
MaxTrades == 11
MaxWins == 1
MaxCycles == 3
MaxExternalTxs == 2
MaxOpportunities == 1

(***************************************************************************)
(* Program constants.                                                      *)
(***************************************************************************)
HistoryCap == 1000
RecentWindow == 20
ConsecutiveLossLimit == 10
BaseSlippage == 30
SlippageCap == 500
FlashLoanPremiumBps == 5
BpsDenominator == 10000
SlippageBps == 30
MinProfitUsd == 500000
\* the USD price of one token unit (cbBTC at $30000) and of one gas unit
UnitPriceUsd == 300000
GasUnitPriceUsd == 10

\* an optional value is the empty set (undefined) or a singleton
Undef == {}
Some(v) == {v}
Get(o) == CHOOSE v \in o : TRUE

VARIABLES
    \* RiskManager fields
    maxDrawdown, currentDrawdown, circuitBreakerEnabled,
    circuitBreakerTriggered, tradeHistory, hourlyTradeCount,
    maxTradesPerHour, minLiquidityUSD, maxPositionSizeUSD,
    volatilityThreshold,
    \* the one validateTrade call of the caller: idle, suspended at its
    \* await, or returned with its result
    validation

riskVars == <<maxDrawdown, currentDrawdown, circuitBreakerEnabled,
              circuitBreakerTriggered, tradeHistory, hourlyTradeCount,
              maxTradesPerHour, minLiquidityUSD, maxPositionSizeUSD,
              volatilityThreshold, validation>>

VARIABLES
    \* ArbEngine fields
    isRunning, cycleCount, totalOpportunities, totalExecuted, totalSuccessful,
    \* where mainLoop / execute is suspended, and whether a shutdown signal
    \* handler is running
    pc, signal,
    \* ExecutionManager fields
    nonce, pendingTxs, totalExecutions, successfulExecutions, totalGasCost,
    \* locals of execute(): the built request, the result of the static call
    \* and the hash of the sent tx
    txParams, simResult, tx,
    \* the ExecutionResult the last execute() call returned
    lastResult,
    \* what the contract, the provider and the clock answer to the
    \* preflightChecks of the opportunity about to be executed
    preflightReadings,
    \* the chain: the signer's mined transaction count and the transactions
    \* the pipeline has broadcast (a hash is an index into txs)
    chainCount, txs,
    \* FlashbotsExecutor: process.env.FLASHBOTS_ENABLED === "true", where
    \* executeWithFallback is suspended, the block submitBundle targets, the
    \* bundles the relay has accepted, and the chain head
    flashbotsEnabled, flashbotsPc, targetBlock, relayBundles, blockNumber

relayVars == <<flashbotsEnabled, flashbotsPc, targetBlock, relayBundles,
               blockNumber>>

engineStats == <<isRunning, cycleCount, totalOpportunities, totalExecuted,
                 totalSuccessful, signal>>
engineVars == <<engineStats, pc>>
execVars == <<nonce, pendingTxs, totalExecutions, successfulExecutions,
              totalGasCost, txParams, simResult, tx, lastResult>>
chainVars == <<chainCount, txs>>
pipelineVars == <<engineVars, execVars, chainVars, relayVars,
                  preflightReadings>>

VARIABLES
    \* StrategyManager: the opportunities the searches of the running scan
    \* have pushed, the candidate evaluated last with what became of it,
    \* the list scanForOpportunities returned, and where the scan is
    opportunities, candidate, profitable, scanPc

strategyVars == <<opportunities, candidate, profitable, scanPc>>

VARIABLES
    \* PoolDiscovery: the catalog (address -> pool record), the pools the
    \* trade-pair graph refers to, the last block scanned, the snapshot file
    \* at persistencePath, where start() and the periodic tick are, and the
    \* pair list a strategy cycle holds
    discoveredPools, tradePairs, lastScanBlock, snapshotFile, discPc, cycle,
    \* the pools whose updatePoolLiquidity was rejected in the last
    \* refreshLiquidity, and the chunks whose queryFilter threw in the last
    \* scan
    readFailures, chunkErrors

discoveryVars == <<discoveredPools, tradePairs, lastScanBlock, snapshotFile,
                   discPc, cycle, readFailures, chunkErrors>>

\* StrategyManager with the PoolDiscovery it owns
searchVars == <<strategyVars, discoveryVars>>

VARIABLES
    \* MempoolMonitor: where its WebSocket connection is, reconnectAttempts,
    \* maxReconnectAttempts and its isRunning flag
    wsPc, reconnectAttempts, maxReconnectAttempts, monitorIsRunning

monitorVars == <<wsPc, reconnectAttempts, maxReconnectAttempts,
                 monitorIsRunning>>

VARIABLES
    \* the pending-transaction subscription of MempoolMonitor: the hashes the
    \* subscription handler was called with, in order of arrival (a hash is
    \* its position in that order); the hashes whose processPendingTx awaits
    \* getTransaction; the hashes whose swap was passed to the onSwap
    \* callbacks, in order of delivery
    pendingArrived, fetching, swapDelivered

mempoolVars == <<pendingArrived, fetching, swapDelivered>>

VARIABLES
    \* the trade-pair graph getTriangularPaths reads, by the symbols of each
    \* pair; the paths its last call returned; whether it has been called
    symbolPairs, paths, pathsPc

triangleVars == <<symbolPairs, paths, pathsPc>>

VARIABLES
    \* GasOracle: the block provider.getBlock("latest") returns, what the
    \* last predictNextBaseFee returned, baseFeeHistory, and whether the
    \* call has returned
    latestBlock, predictedBaseFee, baseFeeHistory, oraclePc

oracleVars == <<latestBlock, predictedBaseFee, baseFeeHistory, oraclePc>>

VARIABLES
    \* WorkerPool: taskQueue (the queued tasks, oldest first), activeWorkers,
    \* maxConcurrency, the tasks whose worker call has not settled, how often
    \* each task was started and how its promise was settled, and where
    \* drain() is
    taskQueue, activeWorkers, maxConcurrency, runningTasks, started, settled,
    drainPc

workerVars == <<taskQueue, activeWorkers, maxConcurrency, runningTasks,
                started, settled, drainPc>>

VARIABLES
    \* LRUCache: the entries of the Map in its iteration order, maxSize, the
    \* clock Date.now() reads, and the last call made on the cache
    cache, maxSize, now, lastCall

cacheVars == <<cache, maxSize, now, lastCall>>

\* the utilities of src/src/utils and the gas oracle
utilVars == <<oracleVars, workerVars, cacheVars>>

\* the components ArbEngine owns besides the execution pipeline
componentVars == <<searchVars, monitorVars, mempoolVars, triangleVars, utilVars>>

nonStrategyVars == <<riskVars, pipelineVars, discoveryVars, monitorVars,
                     mempoolVars, triangleVars, utilVars>>

nonUtilVars == <<riskVars, pipelineVars, searchVars, monitorVars,
                 mempoolVars, triangleVars>>

vars == <<riskVars, pipelineVars, searchVars, monitorVars, mempoolVars,
          triangleVars, utilVars>>

Min(a, b) == IF a < b THEN a ELSE b
Max(a, b) == IF a > b THEN a ELSE b

(***************************************************************************)
(* ethers.parseEther on the decimal strings the model passes in.           *)
(***************************************************************************)
parseEther(s) ==
    CASE s = "5"      -> 5000
      [] s = "0.05"   -> 50
      [] s = "100000" -> 100000000
      [] s = "50000"  -> 50000000

(***************************************************************************)
(* Inputs.                                                                 *)
(***************************************************************************)
\* recordTradeResult(profit, gasCost): a 0.01 ETH loss and a 0.032 ETH gain,
\* each with 0.002 ETH gas
RecordInputs ==
    { [profit |-> -10, gasCost |-> 2],
      [profit |-> 32,  gasCost |-> 2] }

\* validateTrade(params)
ValidateInputs ==
    { [amountIn |-> 1000, liquidityUSD |-> 99999999,  expectedProfit |-> 4, gasCost |-> 2],
      [amountIn |-> 1000, liquidityUSD |-> 100000000, expectedProfit |-> 3, gasCost |-> 2],
      [amountIn |-> 1000, liquidityUSD |-> 100000000, expectedProfit |-> 4, gasCost |-> 2] }

\* the volatility score calculateVolatility() may return
Volatilities == {10, 100}

\* updateRiskParameters(params); a field left out is Undef
NoUpdate ==
    [maxDrawdown |-> Undef, maxTradesPerHour |-> Undef,
     minLiquidityUSD |-> Undef, maxPositionSizeUSD |-> Undef,
     volatilityThreshold |-> Undef, circuitBreakerEnabled |-> Undef]

UpdateInputs ==
    { [NoUpdate EXCEPT !.circuitBreakerEnabled = Some(FALSE)],
      [NoUpdate EXCEPT !.circuitBreakerEnabled = Some(TRUE)],
      [NoUpdate EXCEPT !.maxDrawdown = Some("0.05")],
      [NoUpdate EXCEPT !.maxDrawdown = Some("5")],
      [NoUpdate EXCEPT !.maxTradesPerHour = Some(3)] }

\* constructor config: maxTradesPerHour left out, or set
ConfigMaxTradesPerHour == {Undef, Some(3)}

IdleValidation ==
    [state |-> "idle", params |-> Undef, valid |-> FALSE, reason |-> "",
     recommendedSlippage |-> 0, recommendedPositionSize |-> 0]

(***************************************************************************)
(* RiskManager                                                             *)
(***************************************************************************)
RiskInit ==
    /\ maxDrawdown = parseEther("5")
    /\ currentDrawdown = 0
    /\ circuitBreakerEnabled = TRUE
    /\ circuitBreakerTriggered = FALSE
    /\ tradeHistory = <<>>
    /\ hourlyTradeCount = 0
    /\ \E c \in ConfigMaxTradesPerHour :
          maxTradesPerHour = IF c = Undef THEN 100 ELSE Get(c)
    /\ minLiquidityUSD = parseEther("100000")
    /\ maxPositionSizeUSD = parseEther("50000")
    /\ volatilityThreshold = 50
    /\ validation = IdleValidation

\* trades.slice(-20)
Slice(trades, n) ==
    IF Len(trades) <= n THEN trades
    ELSE SubSeq(trades, Len(trades) - n + 1, Len(trades))

RECURSIVE countConsecutiveLosses(_)
countConsecutiveLosses(trades) ==
    IF trades = <<>> THEN 0
    ELSE IF trades[Len(trades)].profit < 0
         THEN 1 + countConsecutiveLosses(SubSeq(trades, 1, Len(trades) - 1))
         ELSE 0

LosingTrades(trades) ==
    Cardinality({i \in 1..Len(trades) : trades[i].profit < 0})

\* a breaker that does not look at the drawdown
checkCircuitBreaker_noDrawdown(enabled, history, drawdown, cap) ==
    LET recentTrades == Slice(history, RecentWindow)
    IN  /\ enabled
        /\ \/ countConsecutiveLosses(recentTrades) >= ConsecutiveLossLimit
           \/ /\ Len(recentTrades) >= RecentWindow
              /\ LosingTrades(recentTrades) * 10 > 7 * Len(recentTrades)

\* a breaker that needs more than ten consecutive losses
checkCircuitBreaker_lossRunOffByOne(enabled, history, drawdown, cap) ==
    LET recentTrades == Slice(history, RecentWindow)
    IN  /\ enabled
        /\ \/ countConsecutiveLosses(recentTrades) > ConsecutiveLossLimit
           \/ drawdown >= cap
           \/ /\ Len(recentTrades) >= RecentWindow
              /\ LosingTrades(recentTrades) * 10 > 7 * Len(recentTrades)

\* checkCircuitBreaker(): TRUE when one of its three conditions calls
\* triggerCircuitBreaker on the given state
checkCircuitBreaker(enabled, history, drawdown, cap) ==
    LET recentTrades == Slice(history, RecentWindow)
    IN  /\ enabled
        /\ \/ countConsecutiveLosses(recentTrades) >= ConsecutiveLossLimit
           \/ drawdown >= cap
           \/ /\ Len(recentTrades) >= RecentWindow
              \* failureRate > 0.7
              /\ LosingTrades(recentTrades) * 10 > 7 * Len(recentTrades)

\* a drawdown that a gain reduces without the clamp at zero
updateDrawdown_noClamp(drawdown, netProfit) ==
    IF netProfit < 0
    THEN drawdown + (-netProfit)
    ELSE drawdown - netProfit

\* the drawdown after a trade of the given net profit (recordTradeResult)
updateDrawdown(drawdown, netProfit) ==
    IF netProfit < 0
    THEN drawdown + (-netProfit)
    ELSE IF drawdown > netProfit THEN drawdown - netProfit ELSE 0

Wins(history) ==
    Cardinality({i \in 1..Len(history) : history[i].profit >= 0})

recordTradeResult(in) ==
    LET netProfit == in.profit - in.gasCost
        pushed    == Append(tradeHistory,
                            [profit |-> netProfit, gasCost |-> in.gasCost])
        kept      == IF Len(pushed) > HistoryCap THEN Tail(pushed) ELSE pushed
        drawdown  == updateDrawdown(currentDrawdown, netProfit)
    IN  /\ Len(tradeHistory) < MaxTrades
        /\ netProfit >= 0 => Wins(tradeHistory) < MaxWins
        /\ tradeHistory' = kept
        /\ hourlyTradeCount' = hourlyTradeCount + 1
        /\ currentDrawdown' = drawdown
        /\ circuitBreakerTriggered' =
              (circuitBreakerTriggered
               \/ checkCircuitBreaker(circuitBreakerEnabled, kept, drawdown,
                                      maxDrawdown))
        /\ UNCHANGED <<maxDrawdown, circuitBreakerEnabled, maxTradesPerHour,
                       minLiquidityUSD, maxPositionSizeUSD,
                       volatilityThreshold, validation>>

recordTradeResultAny == \E in \in RecordInputs : recordTradeResult(in)

Rejected(reason) ==
    [IdleValidation EXCEPT !.state = "returned", !.valid = FALSE,
                           !.reason = reason]

\* a validateTrade that lets the trade at the hourly limit through
validateTrade_limitOffByOne(params) ==
    /\ validation.state # "awaiting"
    /\ validation' =
          IF circuitBreakerTriggered
          THEN Rejected("Circuit breaker triggered")
          ELSE IF hourlyTradeCount > maxTradesPerHour
          THEN Rejected("Hourly trade limit reached")
          ELSE IF params.liquidityUSD < minLiquidityUSD
          THEN Rejected("Insufficient liquidity")
          ELSE [IdleValidation EXCEPT !.state = "awaiting", !.params = Some(params)]
    /\ UNCHANGED <<maxDrawdown, currentDrawdown, circuitBreakerEnabled,
                   circuitBreakerTriggered, tradeHistory, hourlyTradeCount,
                   maxTradesPerHour, minLiquidityUSD, maxPositionSizeUSD,
                   volatilityThreshold>>

\* validateTrade up to its first await: the three checks made at the call
validateTrade(params) ==
    /\ validation.state # "awaiting"
    /\ validation' =
          IF circuitBreakerTriggered
          THEN Rejected("Circuit breaker triggered")
          ELSE IF hourlyTradeCount >= maxTradesPerHour
          THEN Rejected("Hourly trade limit reached")
          ELSE IF params.liquidityUSD < minLiquidityUSD
          THEN Rejected("Insufficient liquidity")
          ELSE [IdleValidation EXCEPT !.state = "awaiting", !.params = Some(params)]
    /\ UNCHANGED <<maxDrawdown, currentDrawdown, circuitBreakerEnabled,
                   circuitBreakerTriggered, tradeHistory, hourlyTradeCount,
                   maxTradesPerHour, minLiquidityUSD, maxPositionSizeUSD,
                   volatilityThreshold>>

validateTradeAny == \E params \in ValidateInputs : validateTrade(params)

calculateDynamicSlippage(volatility, threshold, amountIn) ==
    LET volatilityAdjustment == (volatility * 50) \div threshold
        sizeAdjustment       == (amountIn * 10) \div 1000
    IN  Min(BaseSlippage + volatilityAdjustment + sizeAdjustment, SlippageCap)

calculateOptimalPositionSize(liquidityUSD, profitUSD) ==
    IF liquidityUSD < minLiquidityUSD THEN 0
    ELSE LET liquidityBasedMax == liquidityUSD \div 100
             absoluteMax == Min(liquidityBasedMax, maxPositionSizeUSD)
             profitRatio == (profitUSD * 100) \div absoluteMax
         IN  IF profitRatio < 50 THEN absoluteMax \div 2 ELSE absoluteMax

\* validateTrade from the return of calculateDynamicSlippage to its result
validateTradeResume ==
    /\ validation.state = "awaiting"
    /\ \E volatility \in Volatilities :
          LET params == Get(validation.params)
              profitThreshold == params.gasCost * 2
          IN  validation' =
                IF params.expectedProfit < profitThreshold
                THEN Rejected("Insufficient profit")
                ELSE IF currentDrawdown >= maxDrawdown
                THEN Rejected("Maximum drawdown reached")
                ELSE [IdleValidation EXCEPT
                        !.state = "returned", !.valid = TRUE,
                        !.recommendedSlippage =
                            calculateDynamicSlippage(volatility,
                                volatilityThreshold, params.amountIn),
                        !.recommendedPositionSize =
                            calculateOptimalPositionSize(params.liquidityUSD,
                                params.expectedProfit)]
    /\ UNCHANGED <<maxDrawdown, currentDrawdown, circuitBreakerEnabled,
                   circuitBreakerTriggered, tradeHistory, hourlyTradeCount,
                   maxTradesPerHour, minLiquidityUSD, maxPositionSizeUSD,
                   volatilityThreshold>>

resetCircuitBreaker ==
    /\ circuitBreakerTriggered' = FALSE
    /\ UNCHANGED <<maxDrawdown, currentDrawdown, circuitBreakerEnabled,
                   tradeHistory, hourlyTradeCount, maxTradesPerHour,
                   minLiquidityUSD, maxPositionSizeUSD, volatilityThreshold,
                   validation>>

\* the setInterval callback of the constructor
resetHourlyCount ==
    /\ hourlyTradeCount' = 0
    /\ UNCHANGED <<maxDrawdown, currentDrawdown, circuitBreakerEnabled,
                   circuitBreakerTriggered, tradeHistory, maxTradesPerHour,
                   minLiquidityUSD, maxPositionSizeUSD, volatilityThreshold,
                   validation>>

Truthy(s) == s # Undef /\ s # Some("")

\* an update that clears a tripped breaker when it disables the breaker
updateRiskParameters_clearsTrip(params) ==
    /\ maxDrawdown' = IF Truthy(params.maxDrawdown)
                      THEN parseEther(Get(params.maxDrawdown)) ELSE maxDrawdown
    /\ maxTradesPerHour' = IF params.maxTradesPerHour # Undef
                           THEN Get(params.maxTradesPerHour) ELSE maxTradesPerHour
    /\ minLiquidityUSD' = IF Truthy(params.minLiquidityUSD)
                          THEN parseEther(Get(params.minLiquidityUSD))
                          ELSE minLiquidityUSD
    /\ maxPositionSizeUSD' = IF Truthy(params.maxPositionSizeUSD)
                             THEN parseEther(Get(params.maxPositionSizeUSD))
                             ELSE maxPositionSizeUSD
    /\ volatilityThreshold' = IF params.volatilityThreshold # Undef
                              THEN Get(params.volatilityThreshold)
                              ELSE volatilityThreshold
    /\ circuitBreakerEnabled' = IF params.circuitBreakerEnabled # Undef
                                THEN Get(params.circuitBreakerEnabled)
                                ELSE circuitBreakerEnabled
    /\ circuitBreakerTriggered' =
          IF params.circuitBreakerEnabled = Some(FALSE)
          THEN FALSE ELSE circuitBreakerTriggered
    /\ UNCHANGED <<currentDrawdown, tradeHistory, hourlyTradeCount, validation>>

updateRiskParameters(params) ==
    /\ maxDrawdown' = IF Truthy(params.maxDrawdown)
                      THEN parseEther(Get(params.maxDrawdown)) ELSE maxDrawdown
    /\ maxTradesPerHour' = IF params.maxTradesPerHour # Undef
                           THEN Get(params.maxTradesPerHour) ELSE maxTradesPerHour
    /\ minLiquidityUSD' = IF Truthy(params.minLiquidityUSD)
                          THEN parseEther(Get(params.minLiquidityUSD))
                          ELSE minLiquidityUSD
    /\ maxPositionSizeUSD' = IF Truthy(params.maxPositionSizeUSD)
                             THEN parseEther(Get(params.maxPositionSizeUSD))
                             ELSE maxPositionSizeUSD
    /\ volatilityThreshold' = IF params.volatilityThreshold # Undef
                              THEN Get(params.volatilityThreshold)
                              ELSE volatilityThreshold
    /\ circuitBreakerEnabled' = IF params.circuitBreakerEnabled # Undef
                                THEN Get(params.circuitBreakerEnabled)
                                ELSE circuitBreakerEnabled
    /\ UNCHANGED <<currentDrawdown, circuitBreakerTriggered, tradeHistory,
                   hourlyTradeCount, validation>>

updateRiskParametersAny == \E params \in UpdateInputs : updateRiskParameters(params)

RiskNext ==
    \/ recordTradeResultAny /\ UNCHANGED <<pipelineVars, componentVars>>
    \/ validateTradeAny /\ UNCHANGED <<pipelineVars, componentVars>>
    \/ validateTradeResume /\ UNCHANGED <<pipelineVars, componentVars>>
    \/ resetCircuitBreaker /\ UNCHANGED <<pipelineVars, componentVars>>
    \/ resetHourlyCount /\ UNCHANGED <<pipelineVars, componentVars>>
    \/ updateRiskParametersAny /\ UNCHANGED <<pipelineVars, componentVars>>

(***************************************************************************)
(* The chain as the pipeline's provider shows it.  An RPC call either      *)
(* takes effect and returns or fails without effect.                       *)
(***************************************************************************)
NoTx == 0
NoNonce == -1

Hashes == 1..Len(txs)
InFlight == {h \in Hashes : txs[h].status = "pending"}

\* provider.getTransactionCount(address, "pending"): the mined count plus
\* the broadcast transactions that follow it without a gap
RECURSIVE PendingFrom(_)
PendingFrom(n) ==
    IF \E h \in InFlight : txs[h].nonce = n THEN PendingFrom(n + 1) ELSE n

PendingCount == PendingFrom(chainCount)

\* transactions of the signer mined from outside the pipeline
ExternalMined ==
    chainCount - Cardinality({h \in Hashes :
                                 txs[h].status \in {"confirmed", "reverted"}})

\* the next block includes the broadcast transaction whose nonce is the
\* signer's next one; it succeeds or reverts
Mine ==
    /\ \E h \in InFlight :
          /\ txs[h].nonce = chainCount
          /\ \E status \in {"confirmed", "reverted"} :
                txs' = [txs EXCEPT ![h].status = status]
    /\ chainCount' = chainCount + 1
    /\ UNCHANGED <<riskVars, componentVars, preflightReadings, relayVars, engineVars, execVars>>

\* a transaction signed with the same key outside the pipeline is mined; a
\* broadcast transaction with the same nonce is replaced by it
ExternalTx ==
    /\ ExternalMined < MaxExternalTxs
    /\ chainCount' = chainCount + 1
    /\ txs' = [h \in Hashes |->
                 IF txs[h].status = "pending" /\ txs[h].nonce = chainCount
                 THEN [txs[h] EXCEPT !.status = "dropped"]
                 ELSE txs[h]]
    /\ UNCHANGED <<riskVars, componentVars, preflightReadings, relayVars, engineVars, execVars>>

(***************************************************************************)
(* ExecutionManager.execute, one step per await.  maxConcurrentOpps is 1:  *)
(* a cycle executes the best opportunity it found, opportunity cycleCount. *)
(***************************************************************************)
NoSimulation == [opp |-> 0, success |-> FALSE, error |-> ""]

NoResult ==
    [opp |-> 0, success |-> FALSE, error |-> "", txHash |-> NoTx,
     gasCost |-> 0, nextNonce |-> NoNonce]

Failure(error) == [NoResult EXCEPT !.opp = cycleCount, !.error = error]

\* revert reasons of the static call
SimulationReverts == { "Insufficient profit", "Unknown error" }

\* gasUsed * gasPrice of a receipt
ReceiptGasCosts == { 2 }

\* a main loop that does not count the successes
Return_successUncounted(result) ==
    /\ lastResult' = result
    /\ pc' = "cycleWait"
    /\ UNCHANGED <<isRunning, cycleCount, totalOpportunities, totalExecuted,
                   totalSuccessful, signal>>

\* execute() returns result to mainLoop, which counts a success and goes on
\* to the timer at the end of the cycle
Return(result) ==
    /\ lastResult' = result
    /\ totalSuccessful' = IF result.success THEN totalSuccessful + 1
                          ELSE totalSuccessful
    /\ pc' = "cycleWait"
    /\ UNCHANGED <<isRunning, cycleCount, totalOpportunities, totalExecuted,
                   signal>>

\* the catch block of execute()
Caught(result) ==
    /\ totalExecutions' = totalExecutions + 1
    /\ Return(result)

RpcError == Failure("rpc error")

\* process.env.MAX_GAS_PRICE_GWEI || "0.5", in tenths of a gwei
maxGasPriceGwei == 5

\* Date.now() - opportunity.timestamp > 5000
MaxOpportunityAgeMs == 5000

\* ethers.parseEther("0.01")
MinBalance == 10

\* nothing is being checked
NoReadings ==
    [paused |-> "no", gasPrice |-> 0, gasReported |-> FALSE, ageMs |-> 0,
     balance |-> 0]

\* readings that pass every check
GoodReadings ==
    [paused |-> "no", gasPrice |-> maxGasPriceGwei, gasReported |-> TRUE,
     ageMs |-> MaxOpportunityAgeMs, balance |-> MinBalance]

\* contract.paused() (which may throw), the network's gas price and whether
\* getFeeData reports it (its gasPrice is null when the request for it
\* failed), the age of the opportunity and the signer's balance: the good
\* readings and those that differ from them in one respect
PreflightReadings ==
    { GoodReadings,
      [GoodReadings EXCEPT !.paused = "paused"],
      [GoodReadings EXCEPT !.paused = "unreadable"],
      [GoodReadings EXCEPT !.gasPrice = maxGasPriceGwei + 1],
      [GoodReadings EXCEPT !.gasReported = FALSE],
      [GoodReadings EXCEPT !.gasPrice = maxGasPriceGwei + 1,
                           !.gasReported = FALSE],
      [GoodReadings EXCEPT !.ageMs = MaxOpportunityAgeMs + 1],
      [GoodReadings EXCEPT !.balance = MinBalance - 1] }

\* return { pass: false, reason } and the return of execute() on it
PreflightFails(reason) ==
    /\ Return(Failure(reason))
    /\ UNCHANGED totalExecutions

\* a preflight that does not look at the in-flight set
preflightChecks_ignoresPending ==
    /\ pc = "preflight"
    /\ \/ LET r == preflightReadings
          IN  IF r.paused = "unreadable"
              THEN PreflightFails("Cannot read contract state")
              ELSE IF r.paused = "paused"
              THEN PreflightFails("Contract is paused")
              ELSE IF r.gasReported /\ r.gasPrice > maxGasPriceGwei
              THEN PreflightFails("Gas price too high")
              ELSE IF r.ageMs > MaxOpportunityAgeMs
              THEN PreflightFails("Opportunity too stale")
              ELSE IF r.balance < MinBalance
              THEN PreflightFails("Insufficient ETH for gas")
              ELSE /\ pc' = "estimateGas"
                   /\ UNCHANGED <<engineStats, totalExecutions, lastResult>>
       \/ Caught(RpcError)
    /\ preflightReadings' = NoReadings
    /\ UNCHANGED <<riskVars, componentVars, relayVars, chainVars, nonce, pendingTxs,
                   successfulExecutions, totalGasCost, txParams, simResult, tx>>

\* 1. preflightChecks and the return on !preflight.pass
preflightChecks ==
    /\ pc = "preflight"
    /\ \/ LET r == preflightReadings
          IN  IF r.paused = "unreadable"
              THEN PreflightFails("Cannot read contract state")
              ELSE IF r.paused = "paused"
              THEN PreflightFails("Contract is paused")
              \* feeData.gasPrice && feeData.gasPrice > the maximum
              ELSE IF r.gasReported /\ r.gasPrice > maxGasPriceGwei
              THEN PreflightFails("Gas price too high")
              ELSE IF r.ageMs > MaxOpportunityAgeMs
              THEN PreflightFails("Opportunity too stale")
              ELSE IF pendingTxs # {}
              THEN PreflightFails("Pending transaction exists")
              ELSE IF r.balance < MinBalance
              THEN PreflightFails("Insufficient ETH for gas")
              ELSE /\ pc' = "estimateGas"
                   /\ UNCHANGED <<engineStats, totalExecutions, lastResult>>
       \* getFeeData or getBalance throws
       \/ Caught(RpcError)
    /\ preflightReadings' = NoReadings
    /\ UNCHANGED <<riskVars, componentVars, relayVars, chainVars, nonce, pendingTxs,
                   successfulExecutions, totalGasCost, txParams, simResult, tx>>

\* 2., 3. encodeStrategy and estimateGas
estimateGas ==
    /\ pc = "estimateGas"
    /\ \/ /\ Return(Failure("Gas estimation failed (likely unprofitable)"))
          /\ UNCHANGED totalExecutions
       \/ /\ pc' = "buildTransaction"
          /\ UNCHANGED <<engineStats, totalExecutions, lastResult>>
       \* encodeStrategy throws
       \/ Caught(Failure("encode error"))
    /\ UNCHANGED <<riskVars, componentVars, preflightReadings, relayVars, chainVars, nonce, pendingTxs,
                   successfulExecutions, totalGasCost, txParams, simResult, tx>>

\* 4. buildTransaction: the nonce is read from the chain when it is still
\* -1, put into the request and incremented
buildTransaction ==
    /\ pc = "buildTransaction"
    /\ \/ LET n == IF nonce = NoNonce THEN PendingCount ELSE nonce
          IN  /\ txParams' = [nonce |-> n]
              /\ nonce' = n + 1
              /\ pc' = "simulate"
              /\ UNCHANGED <<engineStats, totalExecutions, lastResult>>
       \* getFeeData or getTransactionCount throws
       \/ /\ Caught(RpcError)
          /\ UNCHANGED <<nonce, txParams>>
    /\ UNCHANGED <<riskVars, componentVars, preflightReadings, relayVars, chainVars, pendingTxs, successfulExecutions,
                   totalGasCost, simResult, tx>>

\* the outcomes of contract.executeArbitrage.staticCall
SimulationOutcomes ==
    { [success |-> TRUE, error |-> ""] }
    \cup { [success |-> FALSE, error |-> reason] : reason \in SimulationReverts }

\* a pipeline that submits although the simulation reverted
simulateTransaction_submitsAnyway ==
    /\ pc = "simulate"
    /\ \E outcome \in SimulationOutcomes :
          simResult' = [opp |-> cycleCount, success |-> outcome.success,
                        error |-> outcome.error]
    /\ pc' = "submit"
    /\ UNCHANGED <<engineStats, lastResult>>
    /\ UNCHANGED <<riskVars, componentVars, preflightReadings, relayVars, chainVars, nonce, pendingTxs, totalExecutions,
                   successfulExecutions, totalGasCost, txParams, tx>>

\* 5. simulateTransaction and the return on !simResult.success
simulateTransaction ==
    /\ pc = "simulate"
    /\ \E outcome \in SimulationOutcomes :
          /\ simResult' = [opp |-> cycleCount, success |-> outcome.success,
                           error |-> outcome.error]
          /\ IF outcome.success
             THEN /\ pc' = "submit"
                  /\ UNCHANGED <<engineStats, lastResult>>
             ELSE Return(Failure("Simulation failed: " \o outcome.error))
    /\ UNCHANGED <<riskVars, componentVars, preflightReadings, relayVars, chainVars, nonce, pendingTxs, totalExecutions,
                   successfulExecutions, totalGasCost, txParams, tx>>

\* 6. wallet.sendTransaction(txParams) and pendingTxs.add(tx.hash)
sendTransaction ==
    /\ pc = "submit"
    /\ \/ /\ txParams.nonce >= chainCount
          /\ \A h \in InFlight : txs[h].nonce # txParams.nonce
          /\ txs' = Append(txs, [opp |-> cycleCount, nonce |-> txParams.nonce,
                                 status |-> "pending"])
          /\ tx' = Len(txs) + 1
          /\ pendingTxs' = pendingTxs \cup {Len(txs) + 1}
          /\ pc' = "wait"
          /\ UNCHANGED <<engineStats, totalExecutions, lastResult>>
       \/ /\ txParams.nonce < chainCount
          /\ Caught([Failure("nonce too low") EXCEPT !.nextNonce = chainCount])
          /\ UNCHANGED <<txs, tx, pendingTxs>>
       \/ /\ \E h \in InFlight : txs[h].nonce = txParams.nonce
          /\ Caught(Failure("replacement transaction underpriced"))
          /\ UNCHANGED <<txs, tx, pendingTxs>>
       \/ /\ Caught(RpcError)
          /\ UNCHANGED <<txs, tx, pendingTxs>>
    /\ UNCHANGED <<riskVars, componentVars, preflightReadings, relayVars, chainCount, nonce, successfulExecutions,
                   totalGasCost, txParams, simResult>>

\* 7., 8. tx.wait(1) settles once the transaction has left the mempool:
\* with the receipt, or by throwing for a revert or a replacement
waitForReceipt ==
    /\ pc = "wait"
    /\ \/ /\ txs[tx].status = "confirmed"
          /\ pendingTxs' = pendingTxs \ {tx}
          /\ totalExecutions' = totalExecutions + 1
          /\ successfulExecutions' = successfulExecutions + 1
          /\ \E gasCost \in ReceiptGasCosts :
                /\ totalGasCost' = totalGasCost + gasCost
                /\ Return([NoResult EXCEPT !.opp = cycleCount,
                                           !.success = TRUE, !.txHash = tx,
                                           !.gasCost = gasCost])
       \* receipt.status === 0
       \/ /\ txs[tx].status = "reverted"
          /\ pendingTxs' = pendingTxs \ {tx}
          /\ totalExecutions' = totalExecutions + 1
          /\ Return([Failure("Transaction reverted") EXCEPT !.txHash = tx])
          /\ UNCHANGED <<successfulExecutions, totalGasCost>>
       \* wait() throws CALL_EXCEPTION for the reverted transaction
       \/ /\ txs[tx].status = "reverted"
          /\ Caught(Failure("transaction execution reverted"))
          /\ UNCHANGED <<pendingTxs, successfulExecutions, totalGasCost>>
       \* wait() throws TRANSACTION_REPLACED
       \/ /\ txs[tx].status = "dropped"
          /\ Caught(Failure("transaction was replaced"))
          /\ UNCHANGED <<pendingTxs, successfulExecutions, totalGasCost>>
    /\ UNCHANGED <<riskVars, componentVars, preflightReadings, relayVars, chainVars, nonce, txParams, simResult, tx>>

\* tx.wait(1) throws on an RPC error while the transaction is in flight
waitRpcError ==
    /\ pc = "wait"
    /\ txs[tx].status = "pending"
    /\ Caught(RpcError)
    /\ UNCHANGED <<riskVars, componentVars, preflightReadings, relayVars, chainVars, nonce, pendingTxs,
                   successfulExecutions, totalGasCost, txParams, simResult, tx>>

\* resetNonce()
resetNonce ==
    nonce' = PendingCount

(***************************************************************************)
(* ArbEngine                                                               *)
(***************************************************************************)
\* how many opportunities a scan may return
ScanResults == {0, 1}

\* start() up to the call of mainLoop; a failed connectivity check ends
\* the process.  StartupSpec follows the start of the mempool monitor
\* inside it step by step.
start ==
    /\ pc = "start"
    /\ isRunning' = TRUE
    /\ pc' \in {"loopHead", "exited"}
    /\ UNCHANGED <<riskVars, componentVars, preflightReadings, relayVars, execVars, chainVars, cycleCount,
                   totalOpportunities, totalExecuted, totalSuccessful, signal>>

\* while (this.isRunning) { this.cycleCount++ ...
mainLoopHead ==
    /\ pc = "loopHead"
    /\ IF isRunning
       THEN /\ cycleCount < MaxCycles
            /\ cycleCount' = cycleCount + 1
            /\ pc' = "scan"
       ELSE /\ pc' = "stopped"
            /\ UNCHANGED cycleCount
    /\ UNCHANGED <<riskVars, componentVars, preflightReadings, relayVars, execVars, chainVars, isRunning,
                   totalOpportunities, totalExecuted, totalSuccessful, signal>>

\* updatePrices, scanForOpportunities and the head of the for loop
scanForOpportunities ==
    /\ pc = "scan"
    /\ \/ \E found \in ScanResults :
             /\ totalOpportunities' = totalOpportunities + found
             /\ IF found > 0
                THEN /\ totalExecuted' = totalExecuted + 1
                     /\ preflightReadings' \in PreflightReadings
                     /\ pc' = "preflight"
                ELSE /\ pc' = "cycleWait"
                     /\ UNCHANGED <<totalExecuted, preflightReadings>>
       \* a strategy throws: the catch block of mainLoop
       \/ /\ pc' = "cycleError"
          /\ UNCHANGED <<totalOpportunities, totalExecuted,
                         preflightReadings>>
    /\ UNCHANGED <<riskVars, componentVars, relayVars, execVars, chainVars, isRunning, cycleCount,
                   totalSuccessful, signal>>

\* the timer at the end of the cycle
cycleWait ==
    /\ pc = "cycleWait"
    /\ pc' = "loopHead"
    /\ UNCHANGED <<riskVars, componentVars, preflightReadings, relayVars, execVars, chainVars, isRunning, cycleCount,
                   totalOpportunities, totalExecuted, totalSuccessful, signal>>

\* the catch block of mainLoop: resetNonce (its failure ignored), back off
cycleError ==
    /\ pc = "cycleError"
    /\ \/ resetNonce
       \/ UNCHANGED nonce
    /\ pc' = "loopHead"
    /\ UNCHANGED <<riskVars, componentVars, preflightReadings, relayVars, chainVars, isRunning, cycleCount,
                   totalOpportunities, totalExecuted, totalSuccessful, signal,
                   pendingTxs, totalExecutions, successfulExecutions,
                   totalGasCost, txParams, simResult, tx, lastResult>>

\* SIGINT / SIGTERM: the handler calls stop()
stop ==
    /\ pc \notin {"start", "exited"}
    /\ signal = "none"
    /\ signal' = "stopping"
    /\ isRunning' = FALSE
    /\ monitorIsRunning' = FALSE
    /\ UNCHANGED <<riskVars, searchVars, mempoolVars, triangleVars, utilVars,
                   preflightReadings, wsPc, reconnectAttempts,
                   maxReconnectAttempts, relayVars, execVars, chainVars,
                   cycleCount, totalOpportunities, totalExecuted,
                   totalSuccessful, pc>>

\* the handler's process.exit(0) after stop() has returned
processExit ==
    /\ signal = "stopping"
    /\ pc # "exited"
    /\ pc' = "exited"
    /\ UNCHANGED <<riskVars, componentVars, preflightReadings, relayVars, execVars, chainVars, isRunning, cycleCount,
                   totalOpportunities, totalExecuted, totalSuccessful, signal>>

PipelineInit ==
    /\ isRunning = FALSE
    /\ cycleCount = 0
    /\ totalOpportunities = 0
    /\ totalExecuted = 0
    /\ totalSuccessful = 0
    /\ pc = "start"
    /\ signal = "none"
    /\ nonce = NoNonce
    /\ pendingTxs = {}
    /\ totalExecutions = 0
    /\ successfulExecutions = 0
    /\ totalGasCost = 0
    /\ txParams = [nonce |-> NoNonce]
    /\ simResult = NoSimulation
    /\ tx = NoTx
    /\ lastResult = NoResult
    /\ preflightReadings = NoReadings
    /\ chainCount = 0
    /\ txs = <<>>

EngineNext ==
    \/ start
    \/ mainLoopHead
    \/ scanForOpportunities
    \/ preflightChecks
    \/ estimateGas
    \/ buildTransaction
    \/ simulateTransaction
    \/ sendTransaction
    \/ waitForReceipt
    \/ waitRpcError
    \/ cycleWait
    \/ cycleError
    \/ stop
    \/ processExit
    \/ Mine
    \/ ExternalTx

(***************************************************************************)
(* FlashbotsExecutor.executeWithFallback.  Nothing in ArbEngine or         *)
(* ExecutionManager constructs a FlashbotsExecutor or calls it; RelaySpec  *)
(* drives it directly.                                                     *)
(***************************************************************************)
MaxBlocks == 2
MaxPendingTxs == 3
MaxSymbols == 5
\* calls of predictNextBaseFee on one GasOracle
MaxPredictions == 2
\* tasks passed to one WorkerPool and the largest maxConcurrency
MaxTasks == 3
MaxConcurrency == 2
\* keys of an LRUCache, its largest maxSize and the clock readings
MaxKeys == 3
MaxSize == 2
MaxClock == 4

\* a block is produced
NewBlock ==
    /\ blockNumber < MaxBlocks
    /\ blockNumber' = blockNumber + 1
    /\ UNCHANGED <<riskVars, componentVars, preflightReadings, engineVars, execVars, chainVars,
                   flashbotsEnabled, flashbotsPc, targetBlock, relayBundles>>

\* isFlashbotsAvailable() (false when getBlockNumber throws; the chain id
\* is 8453) and the test of FLASHBOTS_ENABLED
executeWithFallback ==
    /\ flashbotsPc = "idle"
    /\ \E flashbotsAvailable \in BOOLEAN :
          flashbotsPc' = IF flashbotsAvailable /\ flashbotsEnabled
                         THEN "sign" ELSE "public"
    /\ UNCHANGED <<riskVars, componentVars, preflightReadings, engineVars, execVars, chainVars,
                   flashbotsEnabled, targetBlock, relayBundles, blockNumber>>

\* executeArbitrageViaFlashbots: signTransaction, then submitBundle up to
\* the simulation; targetBlock is undefined, so the bundle is simulated at
\* the current block and aimed at the one after it
signAndSimulateBundle ==
    /\ flashbotsPc = "sign"
    /\ \/ /\ targetBlock' = blockNumber + 1
          /\ flashbotsPc' = "relay"
       \* signing throws or the simulation fails: null, fall back
       \/ /\ flashbotsPc' = "public"
          /\ UNCHANGED targetBlock
    /\ UNCHANGED <<riskVars, componentVars, preflightReadings, engineVars, execVars, chainVars,
                   flashbotsEnabled, relayBundles, blockNumber>>

\* sendBundleToRelay: eth_sendBundle; the hash is returned on success
sendBundleToRelay ==
    /\ flashbotsPc = "relay"
    /\ \/ /\ relayBundles' = Append(relayBundles, [blockNumber |-> targetBlock])
          /\ flashbotsPc' = "done"
       \/ /\ flashbotsPc' = "public"
          /\ UNCHANGED relayBundles
    /\ UNCHANGED <<riskVars, componentVars, preflightReadings, engineVars, execVars, chainVars,
                   flashbotsEnabled, targetBlock, blockNumber>>

\* the fallback: signer.sendTransaction with the nonce the provider fills in
sendPublic ==
    /\ flashbotsPc = "public"
    /\ \/ /\ txs' = Append(txs, [opp |-> 0, nonce |-> PendingCount,
                                 status |-> "pending"])
          /\ flashbotsPc' = "wait"
       \* sendTransaction throws
       \/ /\ flashbotsPc' = "failed"
          /\ UNCHANGED txs
    /\ UNCHANGED <<riskVars, componentVars, preflightReadings, engineVars, execVars, chainCount,
                   flashbotsEnabled, targetBlock, relayBundles, blockNumber>>

\* await tx.wait() of the fallback
waitPublic ==
    /\ flashbotsPc = "wait"
    /\ txs[Len(txs)].status # "pending"
    /\ flashbotsPc' = IF txs[Len(txs)].status = "confirmed"
                      THEN "done" ELSE "failed"
    /\ UNCHANGED <<riskVars, componentVars, preflightReadings, engineVars, execVars, chainVars,
                   flashbotsEnabled, targetBlock, relayBundles, blockNumber>>

\* the caller calls executeWithFallback again
nextFallbackCall ==
    /\ flashbotsPc \in {"done", "failed"}
    /\ Len(txs) + Len(relayBundles) < MaxCycles
    /\ flashbotsPc' = "idle"
    /\ UNCHANGED <<riskVars, componentVars, preflightReadings, engineVars, execVars, chainVars,
                   flashbotsEnabled, targetBlock, relayBundles, blockNumber>>

RelayInit ==
    /\ flashbotsEnabled \in BOOLEAN
    /\ flashbotsPc = "idle"
    /\ targetBlock = 0
    /\ relayBundles = <<>>
    /\ blockNumber = 0

RelayNext ==
    \/ executeWithFallback
    \/ signAndSimulateBundle
    \/ sendBundleToRelay
    \/ sendPublic
    \/ waitPublic
    \/ nextFallbackCall
    \/ NewBlock
    \/ Mine

(***************************************************************************)
(* StrategyManager (src/unnamed/part_005): the six strategy searches and   *)
(* the end of scanForOpportunities.  Token amounts are counted in units of *)
(* 1000 base units of cbBTC (10^-5 cbBTC), USD amounts in millionths of a  *)
(* dollar and gas in thousands of gas units.                               *)
(***************************************************************************)
Families ==
    { "DIRECT_ARB", "TRIANGULAR_ARB", "LST_ARB", "STABLE_ARB", "ZEROX_ARB",
      "MULTI_HOP_ARB" }

\* getBorrowAmounts("cbBTC"): 0.1 and 1 cbBTC
BorrowAmounts == { 10000, 100000 }

\* (borrowAmount * BigInt(this.flashLoanPremiumBps)) / 10000n
flashLoanCost(borrowAmount) ==
    (borrowAmount * FlashLoanPremiumBps) \div BpsDenominator

totalCost(borrowAmount) == borrowAmount + flashLoanCost(borrowAmount)

\* a final leg that only asks for break-even
finalAmountOutMin_breakEven(borrowAmount) ==
    (totalCost(borrowAmount) * BpsDenominator) \div BpsDenominator

\* (totalCost * BigInt(10000 + 1)) / 10000n
finalAmountOutMin(borrowAmount) ==
    (totalCost(borrowAmount) * (BpsDenominator + 1)) \div BpsDenominator

\* (quote.amountOut * BigInt(10000 - this.slippageBps)) / 10000n
slippageAmountOutMin(amountOut) ==
    (amountOut * (BpsDenominator - SlippageBps)) \div BpsDenominator

\* tokenAmountToUsd for cbBTC: humanAmount * btcPriceUsd
tokenAmountToUsd(amount) == amount * UnitPriceUsd

\* gasToUsd: gas * 0.005 gwei * ethPriceUsd, at $2000 per ETH
gasToUsd(gasUnits) == gasUnits * GasUnitPriceUsd

\* zeroExPrice.estimatedGas of the 0x price
ZeroExEstimatedGas == 200

\* quote.gasEstimate || fallback
gasOr(gasEstimate, fallback) ==
    IF gasEstimate = 0 THEN fallback ELSE gasEstimate

\* the number of legs of a family's opportunities
LegCount(family) == IF family = "TRIANGULAR_ARB" THEN 3 ELSE 2

\* the fallback per leg and the overhead of the family's gas estimate
gasFallback(family) == IF family = "STABLE_ARB" THEN 120 ELSE 150

gasOverhead(family) == IF family = "TRIANGULAR_ARB" THEN 120 ELSE 100

\* the 0x price always carries estimatedGas
totalGasEstimate(c) ==
    IF c.family = "ZEROX_ARB"
    THEN ZeroExEstimatedGas + gasOr(c.gasEstimate, gasFallback(c.family))
            + gasOverhead(c.family)
    ELSE LegCount(c.family) * gasOr(c.gasEstimate, gasFallback(c.family))
            + gasOverhead(c.family)

\* the quotes a family needs before it looks at the profit: enough buy
\* quotes, a sell quote on another (venue, fee tier), non-zero triangle
\* legs, a 0x price and a sell quote
hasQuotes(c) ==
    CASE c.family \in {"DIRECT_ARB", "MULTI_HOP_ARB", "LST_ARB"} ->
            c.buyQuotes >= 2 /\ ~c.sameVenue
      [] c.family = "STABLE_ARB" ->
            c.buyQuotes >= 1 /\ ~c.sameVenue
      [] c.family = "TRIANGULAR_ARB" ->
            c.buyQuotes >= 1 /\ c.legOut # 0 /\ c.totalReturn # 0
      [] c.family = "ZEROX_ARB" ->
            c.buyQuotes >= 1

\* if (totalReturn <= totalCost) continue
closedLoopLoses_acceptsBreakEven(c) ==
    c.totalReturn < totalCost(c.borrowAmount)

closedLoopLoses(c) ==
    c.totalReturn <= totalCost(c.borrowAmount)

profitOf(c) == c.totalReturn - totalCost(c.borrowAmount)

netProfitUsdOf(c) ==
    tokenAmountToUsd(profitOf(c)) - gasToUsd(totalGasEstimate(c))

\* what a pass of the innermost loop does with the candidate, in the order
\* of the code's tests
outcome(c) ==
    CASE ~hasQuotes(c) -> "no quotes"
      [] hasQuotes(c) /\ closedLoopLoses(c) -> "no profit"
      [] hasQuotes(c) /\ ~closedLoopLoses(c)
            /\ netProfitUsdOf(c) < MinProfitUsd -> "below minimum"
      \* the firm 0x quote is refused
      [] hasQuotes(c) /\ ~closedLoopLoses(c)
            /\ netProfitUsdOf(c) >= MinProfitUsd
            /\ c.family = "ZEROX_ARB" /\ ~c.firmQuote -> "no firm quote"
      [] OTHER -> "emitted"

legsOf(c) ==
    [i \in 1..LegCount(c.family) |->
        [amountIn |-> IF i = 1 THEN c.borrowAmount ELSE 0,
         expectedAmountOut |->
            IF i = LegCount(c.family) THEN c.totalReturn ELSE c.legOut,
         amountOutMin |->
            IF i = LegCount(c.family)
            THEN finalAmountOutMin(c.borrowAmount)
            ELSE slippageAmountOutMin(c.legOut)]]

opportunityOf(c) ==
    [strategyType |-> c.family,
     borrowAmount |-> c.borrowAmount,
     legs |-> legsOf(c),
     expectedProfit |-> profitOf(c),
     profitBps |-> (profitOf(c) * BpsDenominator) \div c.borrowAmount,
     profitUsd |-> tokenAmountToUsd(profitOf(c)),
     totalGasEstimate |-> totalGasEstimate(c),
     gasCostUsd |-> gasToUsd(totalGasEstimate(c)),
     netProfitUsd |-> netProfitUsdOf(c)]

\* the outputs the final leg's quote may give for a borrow size: nothing,
\* 0.99995 of the borrow, around borrow plus premium, and a gain of six
\* units ($1.80), which is 6 bp of the smaller borrow amount and 0.6 bp of
\* the larger
FinalOutputs(borrowAmount) ==
    { 0, (borrowAmount * 19999) \div 20000, totalCost(borrowAmount),
      totalCost(borrowAmount) + 1, totalCost(borrowAmount) + 6 }

\* a candidate holds only the quotes the search came to ask for: no sell
\* quote without enough buy quotes, no final output or gas estimate without
\* the quotes before it, no gas estimate for a loop that loses
Reached(c) ==
    /\ (c.family \in {"DIRECT_ARB", "MULTI_HOP_ARB", "LST_ARB"}
            /\ c.buyQuotes < 2) => ~c.sameVenue
    /\ outcome(c) = "no quotes" => (c.totalReturn = 0 /\ c.gasEstimate = 0)
    /\ outcome(c) = "no profit" => c.gasEstimate = 0
    /\ outcome(c) \notin {"no firm quote", "emitted"} => c.firmQuote

\* the candidates a family's loops may come to evaluate
Candidates(family) ==
    UNION { { c \in
              { [family |-> family, borrowAmount |-> b, buyQuotes |-> n,
                 sameVenue |-> same, legOut |-> out, totalReturn |-> ret,
                 gasEstimate |-> gas, firmQuote |-> firm] :
                  n \in IF family \in {"DIRECT_ARB", "MULTI_HOP_ARB", "LST_ARB"}
                        THEN {1, 2} ELSE {1},
                  same \in IF family \in {"TRIANGULAR_ARB", "ZEROX_ARB"}
                           THEN {FALSE} ELSE BOOLEAN,
                  out \in IF family = "TRIANGULAR_ARB" THEN {0, 7000}
                          ELSE {7000},
                  ret \in FinalOutputs(b), gas \in {0, 200},
                  firm \in IF family = "ZEROX_ARB" THEN BOOLEAN ELSE {TRUE} }
              : Reached(c) }
            : b \in BorrowAmounts }

\* the candidate sets, computed once
CandidateSets == [family \in Families |-> Candidates(family)]

NoCandidate == [borrowAmount |-> 0, totalReturn |-> 0, outcome |-> ""]

\* one pass of the innermost loop of a family's search
evaluate(family) ==
    /\ scanPc = "searching"
    /\ \E c \in CandidateSets[family] :
          /\ candidate' = [borrowAmount |-> c.borrowAmount,
                           totalReturn |-> c.totalReturn,
                           outcome |-> outcome(c)]
          /\ IF outcome(c) = "emitted"
             THEN /\ Len(opportunities) < MaxOpportunities
                  /\ opportunities' = Append(opportunities, opportunityOf(c))
             ELSE UNCHANGED opportunities
    /\ UNCHANGED <<profitable, scanPc>>

findDirectArbs == evaluate("DIRECT_ARB") /\ UNCHANGED nonStrategyVars
findTriangularArbs == evaluate("TRIANGULAR_ARB") /\ UNCHANGED nonStrategyVars
findLSTArbs == evaluate("LST_ARB") /\ UNCHANGED nonStrategyVars
findStableArbs == evaluate("STABLE_ARB") /\ UNCHANGED nonStrategyVars
findZeroExArbs == evaluate("ZEROX_ARB") /\ UNCHANGED nonStrategyVars
findDynamicArbs == evaluate("MULTI_HOP_ARB") /\ UNCHANGED nonStrategyVars

\* Array.prototype.sort by netProfitUsd descending (insertion into a
\* sorted list, stable)
RECURSIVE sortByNetProfit(_)
sortByNetProfit(opps) ==
    IF opps = <<>> THEN <<>>
    ELSE LET rest == sortByNetProfit(Tail(opps))
             head == Head(opps)
             k == Cardinality({i \in 1..Len(rest) :
                                 rest[i].netProfitUsd > head.netProfitUsd})
         IN  SubSeq(rest, 1, k) \o <<head>> \o SubSeq(rest, k + 1, Len(rest))

\* the end of scanForOpportunities: filter by minimum profit, sort, return
returnProfitable ==
    /\ scanPc = "searching"
    /\ profitable' =
          sortByNetProfit(SelectSeq(opportunities,
                              LAMBDA o : o.netProfitUsd >= MinProfitUsd))
    /\ scanPc' = "returned"
    /\ UNCHANGED <<opportunities, candidate>>
    /\ UNCHANGED nonStrategyVars

\* the next cycle calls scanForOpportunities again
nextScan ==
    /\ scanPc = "returned"
    /\ scanPc' = "searching"
    /\ opportunities' = <<>>
    /\ candidate' = NoCandidate
    /\ profitable' = <<>>
    /\ UNCHANGED nonStrategyVars

StrategyInit ==
    /\ opportunities = <<>>
    /\ candidate = NoCandidate
    /\ profitable = <<>>
    /\ scanPc = "searching"

StrategyNext ==
    \/ findDirectArbs
    \/ findTriangularArbs
    \/ findLSTArbs
    \/ findStableArbs
    \/ findZeroExArbs
    \/ findDynamicArbs
    \/ returnProfitable
    \/ nextScan

(***************************************************************************)
(* PoolDiscovery with persistence (the class that follows                  *)
(* FlashbotsExecutor in src/src/flashbots/FlashbotsExecutor.ts).  A pool   *)
(* record keeps liquidityUsd (dollars) and isActive; the raw liquidity and *)
(* the reserves change together with liquidityUsd.  With three pools the   *)
(* progress save of refreshLiquidity (every 100 pools) never runs.         *)
(***************************************************************************)
nonDiscoveryVars == <<riskVars, pipelineVars, strategyVars, monitorVars,
                      mempoolVars, triangleVars, utilVars>>

MinLiquidityUsd == 10000
MaxSnapshotAgeDays == 7
SnapshotVersion == "1.0"

\* the pools the factories have created: pools 1 and 2 trade the same pair
\* of known tokens on two venues, pool 3 trades two tokens that are not in
\* TOKENS
PoolAddrs == { 1, 2, 3 }

dexId(a) ==
    CASE a = 1 -> "UNISWAP_V3"
      [] a = 2 -> "AERODROME_V2"
      [] a = 3 -> "UNISWAP_V2"

pairKey(a) == IF a \in { 1, 2 } THEN "USDC-WETH" ELSE "AAA-BBB"

\* knownTokenAddresses.has(token0) || knownTokenAddresses.has(token1)
isRelevant(a) == a \in { 1, 2 }

RelevantAddrs == { a \in PoolAddrs : isRelevant(a) }

\* the block of the pool's PoolCreated / PairCreated event
createdAt(a) == IF a = 2 THEN 2 ELSE 1

\* the record a scan builds for an event
NewPool == [liquidityUsd |-> 0, isActive |-> FALSE]

NoPools == [a \in {} |-> NewPool]

\* what a liquidity call returns: a value in dollars, or it throws
LiquidityLevels == { 5000, 20000 }
FetchFailed == -1
FetchOutcomes == LiquidityLevels \cup { FetchFailed }

NoFile ==
    [state |-> "absent", version |-> "", ageDays |-> 0, lastScanBlock |-> 0,
     pools |-> NoPools]

\* what an interrupted writeFileSync leaves: a prefix of the JSON text
TornFile == [NoFile EXCEPT !.state = "torn"]

\* a snapshot an earlier release of the program wrote a day ago
ForeignSnapshots ==
    { [state |-> "complete", version |-> "0.9", ageDays |-> 1,
       lastScanBlock |-> 1,
       pools |-> [a \in { 1 } |-> [liquidityUsd |-> 20000, isActive |-> TRUE]]] }

\* days between two runs of the process
ElapsedDays == { 0, 7, 8 }

NoCycle == [reading |-> FALSE, pairs |-> NoPools, seen |-> NoPools]

ActivePools(pools) == { a \in DOMAIN pools : pools[a].isActive }

\* savePools: JSON.stringify throws on the bigint fields of the pools inside
\* tradePairs, so nothing is written once the graph holds a pool; otherwise
\* writeFileSync replaces the file in place and may be cut short
savePools(file, pools, pairs, scanned, written) ==
    IF pairs # {}
    THEN file
    ELSE IF written
         THEN [state |-> "complete", version |-> SnapshotVersion,
               ageDays |-> 0, lastScanBlock |-> scanned, pools |-> pools]
         ELSE TornFile

\* loadPools: whether the file is accepted
loadPools(file) ==
    /\ file.state = "complete"
    /\ ~(file.ageDays > MaxSnapshotAgeDays)

\* the marking loop at the end of refreshLiquidity
markActive_anyLiquidity(a, pool) ==
    [pool EXCEPT !.isActive = isRelevant(a) /\ pool.liquidityUsd > 0]

markActive(a, pool) ==
    [pool EXCEPT !.isActive =
        isRelevant(a) /\ pool.liquidityUsd >= MinLiquidityUsd]

\* updatePoolLiquidity on every relevant pool, then the marking loop; with
\* no relevant pool refreshLiquidity returns before the loop
refreshed(pools, fetched) ==
    IF { a \in DOMAIN pools : isRelevant(a) } = {}
    THEN pools
    ELSE [a \in DOMAIN pools |->
            markActive(a,
                IF isRelevant(a) /\ fetched[a] # FetchFailed
                THEN [pools[a] EXCEPT !.liquidityUsd = fetched[a]]
                ELSE pools[a])]

\* the pools whose result in refreshLiquidity is "rejected"
rejected(pools, fetched) ==
    { a \in DOMAIN pools : isRelevant(a) /\ fetched[a] = FetchFailed }

\* discoveredPools.set(poolAddress.toLowerCase(), pool) for every event found
scanned(pools, found) ==
    [a \in DOMAIN pools \cup found |->
        IF a \in found THEN NewPool ELSE pools[a]]

\* buildTradePairs: the pools of the graph
buildTradePairs(pools) == ActivePools(pools)

\* getArbitrageablePairs: the pools of the pairs listed on two venues
arbitrageable(pairs) ==
    { a \in pairs :
        \E b \in pairs : pairKey(b) = pairKey(a) /\ dexId(b) # dexId(a) }

\* the events of the scanned range
EventsIn(fromBlock, toBlock) ==
    { a \in PoolAddrs : fromBlock <= createdAt(a) /\ createdAt(a) <= toBlock }

\* the chunk of one factory's scan that holds the pool's event; a chunk
\* stands for BLOCK_RANGE blocks
chunkOf(a) == <<dexId(a), createdAt(a)>>

\* the chunks of the range that hold an event
Chunks(fromBlock, toBlock) == { chunkOf(a) : a \in EventsIn(fromBlock, toBlock) }

\* a scan that ends at the first chunk whose query throws
scanFactory_abortsOnError(fromBlock, toBlock, failed) ==
    { a \in EventsIn(fromBlock, toBlock) :
        \A b \in EventsIn(fromBlock, toBlock) : chunkOf(b) \in failed => a < b }

\* scanFactory over every factory: the events of the chunks whose query
\* returned; a chunk whose query throws is logged and skipped
scanFactory(fromBlock, toBlock, failed) ==
    { a \in EventsIn(fromBlock, toBlock) : chunkOf(a) \notin failed }

\* a pair list keeps the pool objects it was built from: a record that a
\* scan replaces in the catalog stays as it was in the list
detached(held, pools, found) ==
    [a \in DOMAIN held |->
        IF held[a] = Undef /\ a \in found /\ a \in DOMAIN pools
        THEN Some(pools[a])
        ELSE held[a]]

\* the pools, liquidity values and flags a cycle reads through its pair list
Observed(held, pools) ==
    [a \in DOMAIN held |->
        IF held[a] = Undef THEN pools[a] ELSE Get(held[a])]

\* the operator puts a snapshot at persistencePath before the process runs
provisionSnapshot ==
    /\ discPc = "constructed"
    /\ snapshotFile = NoFile
    /\ snapshotFile' \in ForeignSnapshots
    /\ UNCHANGED <<discoveredPools, tradePairs, lastScanBlock, discPc, cycle,
                   readFailures, chunkErrors>>
    /\ UNCHANGED nonDiscoveryVars

\* PoolDiscovery.start up to the choice between the two branches
discoveryStart ==
    /\ discPc = "constructed"
    /\ IF loadPools(snapshotFile)
       THEN /\ discoveredPools' = snapshotFile.pools
            /\ lastScanBlock' = snapshotFile.lastScanBlock
            /\ discPc' = "startRefresh"
       ELSE /\ discPc' = "fullScan"
            /\ UNCHANGED <<discoveredPools, lastScanBlock>>
    /\ UNCHANGED <<tradePairs, snapshotFile, cycle, readFailures, chunkErrors>>
    /\ UNCHANGED nonDiscoveryVars

\* fullScan up to lastScanBlock = currentBlock: the factories are scanned
\* from their start blocks and the progress is saved
fullScan ==
    /\ discPc = "fullScan"
    /\ \E failed \in SUBSET Chunks(1, blockNumber), written \in BOOLEAN :
        LET found == scanFactory(1, blockNumber, failed)
        IN  /\ discoveredPools' = scanned(discoveredPools, found)
            /\ snapshotFile' =
                   savePools(snapshotFile, discoveredPools', tradePairs,
                             lastScanBlock, written)
            /\ cycle' = [cycle EXCEPT
                            !.pairs = detached(@, discoveredPools, found)]
            /\ chunkErrors' = failed
    /\ lastScanBlock' = blockNumber
    /\ discPc' = "fullScanRefresh"
    /\ UNCHANGED <<tradePairs, readFailures>>
    /\ UNCHANGED nonDiscoveryVars

\* refreshLiquidity and what its caller does next: start() builds the graph
\* and goes on to scan, fullScan builds the graph and saves, the tick saves
refreshLiquidity ==
    /\ discPc \in { "startRefresh", "fullScanRefresh", "tickRefresh" }
    /\ \E fetched \in [RelevantAddrs -> FetchOutcomes], written \in BOOLEAN :
        /\ discoveredPools' = refreshed(discoveredPools, fetched)
        /\ readFailures' = rejected(discoveredPools, fetched)
        /\ tradePairs' =
               IF discPc = "tickRefresh"
               THEN tradePairs
               ELSE buildTradePairs(discoveredPools')
        /\ snapshotFile' =
               IF discPc = "startRefresh"
               THEN snapshotFile
               ELSE savePools(snapshotFile, discoveredPools', tradePairs',
                              lastScanBlock, written)
    /\ discPc' = IF discPc = "startRefresh" THEN "startScan" ELSE "running"
    /\ UNCHANGED <<lastScanBlock, cycle, chunkErrors>>
    /\ UNCHANGED nonDiscoveryVars

\* incrementalScan, called by start() after a load and by the periodic tick
incrementalScan ==
    /\ discPc \in { "startScan", "running" }
    /\ IF blockNumber <= lastScanBlock
       THEN UNCHANGED <<discoveredPools, tradePairs, lastScanBlock, cycle,
                        chunkErrors>>
       ELSE \E failed \in SUBSET Chunks(lastScanBlock + 1, blockNumber) :
               LET found == scanFactory(lastScanBlock + 1, blockNumber, failed)
               IN  /\ discoveredPools' = scanned(discoveredPools, found)
                   /\ lastScanBlock' = blockNumber
                   /\ tradePairs' =
                          IF found # {}
                          THEN buildTradePairs(discoveredPools')
                          ELSE tradePairs
                   /\ cycle' = [cycle EXCEPT
                                   !.pairs = detached(@, discoveredPools, found)]
                   /\ chunkErrors' = failed
    /\ discPc' = IF discPc = "startScan" THEN "running" ELSE "tickRefresh"
    /\ UNCHANGED <<snapshotFile, readFailures>>
    /\ UNCHANGED nonDiscoveryVars

\* findDynamicArbs takes the pair list and works through it across awaits
getArbitrageablePairs ==
    /\ discPc \in { "running", "tickRefresh" }
    /\ ~cycle.reading
    /\ LET held == [a \in arbitrageable(tradePairs) |-> Undef]
       IN  cycle' = [reading |-> TRUE, pairs |-> held,
                     seen |-> Observed(held, discoveredPools)]
    /\ UNCHANGED <<discoveredPools, tradePairs, lastScanBlock, snapshotFile,
                   discPc, readFailures, chunkErrors>>
    /\ UNCHANGED nonDiscoveryVars

\* the search returns
cycleDone ==
    /\ cycle.reading
    /\ cycle' = NoCycle
    /\ UNCHANGED <<discoveredPools, tradePairs, lastScanBlock, snapshotFile,
                   discPc, readFailures, chunkErrors>>
    /\ UNCHANGED nonDiscoveryVars

\* the process ends (stop() saves nothing) and a new one is constructed
\* some days later
discoveryRestart ==
    /\ discPc # "constructed"
    /\ \E days \in ElapsedDays :
        snapshotFile' =
            IF snapshotFile.state = "complete"
            THEN [snapshotFile EXCEPT
                    !.ageDays = Min(MaxSnapshotAgeDays + 1, @ + days)]
            ELSE snapshotFile
    /\ discoveredPools' = NoPools
    /\ tradePairs' = {}
    /\ lastScanBlock' = 0
    /\ cycle' = NoCycle
    /\ readFailures' = {}
    /\ chunkErrors' = {}
    /\ discPc' = "constructed"
    /\ UNCHANGED nonDiscoveryVars

DiscoveryInit ==
    /\ discoveredPools = NoPools
    /\ tradePairs = {}
    /\ lastScanBlock = 0
    /\ snapshotFile = NoFile
    /\ discPc = "constructed"
    /\ cycle = NoCycle
    /\ readFailures = {}
    /\ chunkErrors = {}

DiscoveryNext ==
    \/ provisionSnapshot
    \/ discoveryStart
    \/ fullScan
    \/ refreshLiquidity
    \/ incrementalScan
    \/ getArbitrageablePairs
    \/ cycleDone
    \/ discoveryRestart
    \/ NewBlock

(***************************************************************************)
(* MempoolMonitor.start (src/src/monitoring/MempoolMonitor.ts) as          *)
(* ArbEngine.start awaits it.  The WebSocket provider itself is outside    *)
(* the source: a connection attempt connects, fails, times out after 15 s  *)
(* or is refused with HTTP 429.                                            *)
(***************************************************************************)
MaxReconnectAttempts == 10
RateLimitedReconnectAttempts == 20

ConnectOutcomes == { "connected", "error", "timeout", "429" }

\* delays are counted in eighths of a millisecond, so that 5000 * 1.5^n is
\* a whole number up to the cap
BaseDelay == 40000
MaxDelay == 480000

\* reconnect: Math.min(5000 * Math.pow(1.5, this.reconnectAttempts), 60000),
\* evaluated after this.reconnectAttempts++.  The power is taken one factor
\* at a time and capped at each factor, which gives the same minimum.
RECURSIVE backoffDelay(_)
backoffDelay(attempts) ==
    IF attempts = 0
    THEN BaseDelay
    ELSE Min(MaxDelay, (backoffDelay(attempts - 1) * 3) \div 2)

\* ArbEngine.start up to await this.mempoolMonitor.start(), and
\* MempoolMonitor.start up to await this.connectWebSocket()
startMempoolMonitor ==
    /\ pc = "start"
    /\ isRunning' = TRUE
    /\ \/ /\ pc' = "mempool"
          /\ monitorIsRunning' = TRUE
          /\ wsPc' = "connecting"
       \/ /\ pc' = "exited"
          /\ UNCHANGED <<monitorIsRunning, wsPc>>
    /\ UNCHANGED <<riskVars, searchVars, mempoolVars, triangleVars, utilVars,
                   preflightReadings, relayVars, execVars,
                   chainVars, cycleCount, totalOpportunities, totalExecuted,
                   totalSuccessful, signal, reconnectAttempts,
                   maxReconnectAttempts>>

\* connectWebSocket; on a failure its catch block and reconnect() up to the
\* backoff delay
connectWebSocket ==
    /\ wsPc = "connecting"
    /\ \E connection \in ConnectOutcomes :
        IF connection = "connected"
        THEN /\ reconnectAttempts' = 0
             /\ wsPc' = "ready"
             /\ UNCHANGED <<maxReconnectAttempts, monitorIsRunning>>
        ELSE /\ maxReconnectAttempts' =
                    IF connection = "429"
                    THEN RateLimitedReconnectAttempts
                    ELSE maxReconnectAttempts
             /\ IF ~monitorIsRunning
                THEN /\ wsPc' = "gaveUp"
                     /\ UNCHANGED <<reconnectAttempts, monitorIsRunning>>
                ELSE IF reconnectAttempts >= maxReconnectAttempts'
                THEN /\ monitorIsRunning' = FALSE
                     /\ wsPc' = "gaveUp"
                     /\ UNCHANGED reconnectAttempts
                ELSE /\ reconnectAttempts' = reconnectAttempts + 1
                     /\ wsPc' = "backoff"
                     /\ UNCHANGED monitorIsRunning
    /\ UNCHANGED <<riskVars, pipelineVars, searchVars, mempoolVars,
                   triangleVars, utilVars>>

\* the backoff delay of reconnect() has passed
reconnectDelay ==
    /\ wsPc = "backoff"
    /\ wsPc' = "connecting"
    /\ UNCHANGED <<reconnectAttempts, maxReconnectAttempts, monitorIsRunning>>
    /\ UNCHANGED <<riskVars, pipelineVars, searchVars, mempoolVars,
                   triangleVars, utilVars>>

\* mempoolMonitor.start() has returned to ArbEngine.start, which starts the
\* pool discovery and calls mainLoop
mempoolStarted ==
    /\ pc = "mempool"
    /\ wsPc \in { "ready", "gaveUp" }
    /\ pc' = "loopHead"
    /\ UNCHANGED <<riskVars, componentVars, preflightReadings, relayVars, execVars, chainVars,
                   engineStats>>

\* the handler connectWebSocket passes to subscribeToPendingTxs is called
\* with a pending transaction hash; it calls processPendingTx, which runs
\* up to await this.wsProvider.getTransaction(txHash)
pendingTx ==
    /\ wsPc = "ready"
    /\ Len(pendingArrived) < MaxPendingTxs
    /\ pendingArrived' = Append(pendingArrived, Len(pendingArrived) + 1)
    /\ fetching' = fetching \cup { Len(pendingArrived) + 1 }
    /\ UNCHANGED swapDelivered
    /\ UNCHANGED <<riskVars, pipelineVars, searchVars, monitorVars,
                   triangleVars, utilVars>>

\* what the rest of processPendingTx finds: a swap sent to a known router,
\* or nothing to report (no transaction, another recipient, an unknown
\* selector, or getTransaction throws and the handler swallows it)
FetchResults == { "swap", "nothing" }

\* getTransaction of one processPendingTx call resolves and the call runs
\* to its end, calling every onSwap callback when it decoded a swap
processPendingTx(txHash) ==
    /\ txHash \in fetching
    /\ fetching' = fetching \ { txHash }
    /\ \E fetched \in FetchResults :
          swapDelivered' = IF fetched = "swap"
                           THEN Append(swapDelivered, txHash)
                           ELSE swapDelivered
    /\ UNCHANGED pendingArrived
    /\ UNCHANGED <<riskVars, pipelineVars, searchVars, monitorVars,
                   triangleVars, utilVars>>

processPendingTxAny == \E txHash \in 1..MaxPendingTxs : processPendingTx(txHash)

MonitorInit ==
    /\ wsPc = "idle"
    /\ reconnectAttempts = 0
    /\ maxReconnectAttempts = MaxReconnectAttempts
    /\ monitorIsRunning = FALSE
    /\ pendingArrived = <<>>
    /\ fetching = {}
    /\ swapDelivered = <<>>

(***************************************************************************)
(* PoolDiscovery.getTriangularPaths over the trade-pair graph.  A token    *)
(* symbol is a number, the order of the numbers being the string order     *)
(* the code compares symbols by.                                           *)
(***************************************************************************)
Symbols == 1..MaxSymbols

\* Object.keys(TOKENS): the symbols of the flash-loan-borrowable assets
borrowable == { 2, 4 }

\* a pair holds its two tokens in the order of their addresses, which is not
\* the order of their symbols
addressOrder == [x \in Symbols |-> (x * 3) % (MaxSymbols + 2)]

\* the pairs buildTradePairs can create: each has at least one pool
TradePairs ==
    { [tokenASymbol |-> e[1], tokenBSymbol |-> e[2]] :
        e \in { d \in Symbols \X Symbols :
                   addressOrder[d[1]] < addressOrder[d[2]] } }

\* the adjacency map: symbol -> set of neighbour symbols
pairsByToken(pairs, t) ==
    { p.tokenBSymbol : p \in { q \in pairs : q.tokenASymbol = t } }
        \cup { p.tokenASymbol : p \in { q \in pairs : q.tokenBSymbol = t } }

\* a rotation that leaves every triangle as the loops found it
rotated_asFound(a, b, c) ==
    IF {a, b, c} \cap borrowable # {}
    THEN Some([a |-> a, b |-> b, c |-> c])
    ELSE Undef

\* the if / else if chain that pushes the triangle rotated to start with
\* its first borrowable symbol, or drops it
rotated(a, b, c) ==
    IF a \in borrowable THEN Some([a |-> a, b |-> b, c |-> c])
    ELSE IF b \in borrowable THEN Some([a |-> b, b |-> c, c |-> a])
    ELSE IF c \in borrowable THEN Some([a |-> c, b |-> a, c |-> b])
    ELSE Undef

\* the three nested loops: a over the keys, b over the neighbours of a
\* above a, c over the neighbours of b above b that are neighbours of a
getTriangularPaths(pairs) ==
    LET tokens == { t \in Symbols : pairsByToken(pairs, t) # {} }
    IN  UNION { UNION { UNION { rotated(a, b, c) :
                    c \in { n \in pairsByToken(pairs, b) :
                              ~(n <= b) /\ n \in pairsByToken(pairs, a) } } :
                b \in { n \in pairsByToken(pairs, a) : ~(n <= a) } } :
            a \in tokens }

\* a caller asks for the triangles of the current graph
callGetTriangularPaths ==
    /\ pathsPc = "built"
    /\ paths' = getTriangularPaths(symbolPairs)
    /\ pathsPc' = "returned"
    /\ UNCHANGED symbolPairs
    /\ UNCHANGED <<riskVars, pipelineVars, searchVars, monitorVars,
                   mempoolVars, utilVars>>

\* the graph before discovery has found a pool
TriangleInit ==
    /\ symbolPairs = {}
    /\ paths = {}
    /\ pathsPc = "built"

TriangleNext == callGetTriangularPaths

MempoolNext ==
    \/ startMempoolMonitor
    \/ connectWebSocket
    \/ reconnectDelay
    \/ pendingTx
    \/ processPendingTxAny

StartupNext ==
    \/ startMempoolMonitor
    \/ connectWebSocket
    \/ reconnectDelay
    \/ mempoolStarted
    \/ mainLoopHead
    \/ scanForOpportunities
    \/ preflightChecks
    \/ estimateGas
    \/ buildTransaction
    \/ simulateTransaction
    \/ sendTransaction
    \/ waitForReceipt
    \/ waitRpcError
    \/ cycleWait
    \/ cycleError
    \/ stop
    \/ processExit
    \/ Mine
    \/ ExternalTx

(***************************************************************************)
(* GasOracle.predictNextBaseFee (src/unnamed/part_002).  Base fees are     *)
(* counted in units of 10^7 wei (0.01 gwei) and gas in millions of gas     *)
(* units.                                                                  *)
(***************************************************************************)
\* return 20000000000n
DefaultBaseFee == 2000

RatioScale == 1000000

maxHistoryLength == 20

\* the blocks getBlock("latest") may return: baseFeePerGas 0 stands for a
\* block without base fee; a block of 30M gas limit that is empty, under
\* the target, at the target, over it, or full
Blocks ==
    [baseFeePerGas : { 0, 800, 1600 }, gasUsed : { 0, 10, 15, 20, 30 },
     gasLimit : { 30 }]

\* a delta that is the EIP-1559 change and is subtracted under the target
baseFeeDelta_eip1559(currentBaseFee, gasUsed, gasLimit) ==
    LET gasTarget == gasLimit \div 2
        over == ((currentBaseFee * (gasUsed - gasTarget)) \div gasTarget) \div 8
        under == ((currentBaseFee * (gasTarget - gasUsed)) \div gasTarget) \div 8
    IN  IF gasUsed > gasTarget THEN over
        ELSE IF gasUsed < gasTarget THEN 0 - under
        ELSE 0

\* baseFeeDelta of predictNextBaseFee
baseFeeDelta(currentBaseFee, gasUsed, gasLimit) ==
    LET gasTarget == gasLimit \div 2
    IN  IF gasUsed > gasTarget
        THEN LET excessRatio ==
                     ((gasUsed - gasTarget) * RatioScale) \div gasTarget
             IN  (currentBaseFee * excessRatio) \div 8
        ELSE IF gasUsed < gasTarget
        THEN LET deficitRatio ==
                     ((gasTarget - gasUsed) * RatioScale) \div gasTarget
             IN  (currentBaseFee * deficitRatio) \div 8
        ELSE 0

\* !latestBlock || !latestBlock.baseFeePerGas
hasBaseFee(block) == block # Undef /\ Get(block).baseFeePerGas # 0

\* the chain produces a block and the caller of the oracle goes on
newLatestBlock ==
    /\ \E block \in Blocks : latestBlock' = Some(block)
    /\ oraclePc' = "idle"
    /\ UNCHANGED <<predictedBaseFee, baseFeeHistory>>
    /\ UNCHANGED <<nonUtilVars, workerVars, cacheVars>>

predictNextBaseFee ==
    /\ oraclePc = "idle"
    /\ IF ~hasBaseFee(latestBlock)
       THEN /\ predictedBaseFee' = DefaultBaseFee
            /\ UNCHANGED baseFeeHistory
       ELSE LET block == Get(latestBlock)
                currentBaseFee == block.baseFeePerGas
                pushed == Append(baseFeeHistory, currentBaseFee)
            IN  /\ Len(baseFeeHistory) < MaxPredictions
                /\ predictedBaseFee' =
                       currentBaseFee
                         + baseFeeDelta(currentBaseFee, block.gasUsed,
                                        block.gasLimit)
                /\ baseFeeHistory' =
                       IF Len(pushed) > maxHistoryLength
                       THEN Tail(pushed)
                       ELSE pushed
    /\ oraclePc' = "returned"
    /\ UNCHANGED latestBlock
    /\ UNCHANGED <<nonUtilVars, workerVars, cacheVars>>

\* a new GasOracle is constructed
newGasOracle ==
    /\ baseFeeHistory # <<>>
    /\ baseFeeHistory' = <<>>
    /\ predictedBaseFee' = 0
    /\ oraclePc' = "idle"
    /\ UNCHANGED latestBlock
    /\ UNCHANGED <<nonUtilVars, workerVars, cacheVars>>

OracleInit ==
    /\ latestBlock = Undef
    /\ predictedBaseFee = 0
    /\ baseFeeHistory = <<>>
    /\ oraclePc = "idle"

OracleNext ==
    \/ newLatestBlock
    \/ predictNextBaseFee
    \/ newGasOracle

(***************************************************************************)
(* WorkerPool (src/src/utils/WorkerPool.ts).  A task is known by its       *)
(* number; a worker call settles when its promise does, and the            *)
(* continuation of processQueue runs then.                                 *)
(***************************************************************************)
Tasks == 1..MaxTasks

\* the fields processQueue reads and writes
poolState ==
    [taskQueue |-> taskQueue, activeWorkers |-> activeWorkers,
     runningTasks |-> runningTasks, started |-> started]

\* a processQueue that starts the head of the queue whatever is running
processQueue_noLimit(pool) ==
    IF Len(pool.taskQueue) = 0
    THEN pool
    ELSE LET task == Head(pool.taskQueue)
         IN  [taskQueue |-> Tail(pool.taskQueue),
              activeWorkers |-> pool.activeWorkers + 1,
              runningTasks |-> pool.runningTasks \cup { task },
              started |-> [pool.started EXCEPT ![task] = @ + 1]]

\* a processQueue that leaves the task it starts in the queue
processQueue_keepsQueued(pool) ==
    IF pool.activeWorkers >= maxConcurrency \/ Len(pool.taskQueue) = 0
    THEN pool
    ELSE LET task == Head(pool.taskQueue)
         IN  [taskQueue |-> pool.taskQueue,
              activeWorkers |-> pool.activeWorkers + 1,
              runningTasks |-> pool.runningTasks \cup { task },
              started |-> [pool.started EXCEPT ![task] = @ + 1]]

\* processQueue up to its await: activeWorkers++, taskQueue.shift(), and the
\* worker is called
processQueue(pool) ==
    IF pool.activeWorkers >= maxConcurrency \/ Len(pool.taskQueue) = 0
    THEN pool
    ELSE LET task == Head(pool.taskQueue)
         IN  [taskQueue |-> Tail(pool.taskQueue),
              activeWorkers |-> pool.activeWorkers + 1,
              runningTasks |-> pool.runningTasks \cup { task },
              started |-> [pool.started EXCEPT ![task] = @ + 1]]

\* the fields take the values of a pool state
becomes(pool) ==
    /\ taskQueue' = pool.taskQueue
    /\ activeWorkers' = pool.activeWorkers
    /\ runningTasks' = pool.runningTasks
    /\ started' = pool.started

\* a task that has not been passed to execute
Fresh(task) ==
    /\ \A i \in 1..Len(taskQueue) : taskQueue[i] # task
    /\ started[task] = 0
    /\ settled[task] = <<>>

\* execute(task): push and processQueue
execute(task) ==
    /\ Fresh(task)
    /\ becomes(processQueue([poolState EXCEPT
                                !.taskQueue = Append(@, task)]))
    /\ UNCHANGED <<maxConcurrency, settled, drainPc>>
    /\ UNCHANGED <<nonUtilVars, oracleVars, cacheVars>>

executeAny == \E task \in Tasks : execute(task)

\* the worker's promise settles: resolve(result) or reject(error), then
\* finally: activeWorkers-- and processQueue
workerSettles(task) ==
    /\ task \in runningTasks
    /\ \E how \in { "resolved", "rejected" } :
          settled' = [settled EXCEPT ![task] = Append(@, how)]
    /\ becomes(processQueue([poolState EXCEPT
                                !.activeWorkers = @ - 1,
                                !.runningTasks = @ \ { task }]))
    /\ UNCHANGED <<maxConcurrency, drainPc>>
    /\ UNCHANGED <<nonUtilVars, oracleVars, cacheVars>>

workerSettlesAny == \E task \in Tasks : workerSettles(task)

\* the queued tasks are rejected and the queue is emptied
cleared(queue, outcomes) ==
    [task \in Tasks |->
        IF \E i \in 1..Len(queue) : queue[i] = task
        THEN Append(outcomes[task], "cleared")
        ELSE outcomes[task]]

clearQueue ==
    /\ taskQueue # <<>>
    /\ settled' = cleared(taskQueue, settled)
    /\ taskQueue' = <<>>
    /\ UNCHANGED <<activeWorkers, maxConcurrency, runningTasks, started,
                   drainPc>>
    /\ UNCHANGED <<nonUtilVars, oracleVars, cacheVars>>

\* drain() is called and polls every 10 ms
drain ==
    /\ drainPc # "polling"
    /\ drainPc' = "polling"
    /\ UNCHANGED <<taskQueue, activeWorkers, maxConcurrency, runningTasks,
                   started, settled>>
    /\ UNCHANGED <<nonUtilVars, oracleVars, cacheVars>>

\* a poll that finds nothing active and nothing queued
drainReturns ==
    /\ drainPc = "polling"
    /\ ~(activeWorkers > 0 \/ Len(taskQueue) > 0)
    /\ drainPc' = "returned"
    /\ UNCHANGED <<taskQueue, activeWorkers, maxConcurrency, runningTasks,
                   started, settled>>
    /\ UNCHANGED <<nonUtilVars, oracleVars, cacheVars>>

\* shutdown(): clearQueue, then drain
shutdown ==
    /\ drainPc # "polling"
    /\ settled' = cleared(taskQueue, settled)
    /\ taskQueue' = <<>>
    /\ drainPc' = "polling"
    /\ UNCHANGED <<activeWorkers, maxConcurrency, runningTasks, started>>
    /\ UNCHANGED <<nonUtilVars, oracleVars, cacheVars>>

\* new WorkerPool(workerFn, maxConcurrency)
WorkerConstructed(concurrency) ==
    /\ taskQueue = <<>>
    /\ activeWorkers = 0
    /\ maxConcurrency = concurrency
    /\ runningTasks = {}
    /\ started = [task \in Tasks |-> 0]
    /\ settled = [task \in Tasks |-> <<>>]
    /\ drainPc = "idle"

WorkerInit == WorkerConstructed(MaxConcurrency)

WorkerNext ==
    \/ executeAny
    \/ workerSettlesAny
    \/ clearQueue
    \/ drain
    \/ drainReturns
    \/ shutdown

(***************************************************************************)
(* LRUCache (src/src/utils/WorkerPool.ts): a Map, whose iteration order is *)
(* the order in which its keys were inserted.                              *)
(***************************************************************************)
Keys == 1..MaxKeys

CachedValues == { 10, 20 }

\* the keys of the Map
KeySet(entries) == { entries[i].key : i \in 1..Len(entries) }

\* Map.delete(key)
mapDelete(entries, key) == SelectSeq(entries, LAMBDA e : e.key # key)

\* Map.set(key, entry): a key that is present keeps its place
mapSet(entries, entry) ==
    IF entry.key \in KeySet(entries)
    THEN [i \in 1..Len(entries) |->
            IF entries[i].key = entry.key THEN entry ELSE entries[i]]
    ELSE Append(entries, entry)

\* get(key)
get(key) ==
    /\ IF key \notin KeySet(cache)
       THEN /\ lastCall' = [op |-> "get", key |-> key, result |-> 0]
            /\ UNCHANGED <<cache, now>>
       ELSE LET entry == CHOOSE e \in { cache[i] : i \in 1..Len(cache) } :
                             e.key = key
                used == [entry EXCEPT !.timestamp = now + 1]
            IN  /\ now < MaxClock
                /\ now' = now + 1
                /\ cache' = mapSet(mapDelete(cache, key), used)
                /\ lastCall' = [op |-> "get", key |-> key,
                                result |-> entry.value]
    /\ UNCHANGED maxSize
    /\ UNCHANGED <<nonUtilVars, oracleVars, workerVars>>

getAny == \E key \in Keys : get(key)

\* set(key, value)
set(key, value) ==
    /\ now < MaxClock
    /\ now' = now + 1
    /\ LET kept == IF Len(cache) >= maxSize /\ Len(cache) > 0
                   THEN mapDelete(cache, cache[1].key)
                   ELSE cache
       IN  cache' = mapSet(kept, [key |-> key, value |-> value,
                                  timestamp |-> now + 1])
    /\ lastCall' = [op |-> "set", key |-> key, result |-> 0]
    /\ UNCHANGED maxSize
    /\ UNCHANGED <<nonUtilVars, oracleVars, workerVars>>

setAny == \E key \in Keys, value \in CachedValues : set(key, value)

\* clear()
clear ==
    /\ cache # <<>>
    /\ cache' = <<>>
    /\ lastCall' = [op |-> "clear", key |-> 0, result |-> 0]
    /\ UNCHANGED <<maxSize, now>>
    /\ UNCHANGED <<nonUtilVars, oracleVars, workerVars>>

\* new LRUCache(size)
CacheConstructed(size) ==
    /\ cache = <<>>
    /\ maxSize = size
    /\ now = 0
    /\ lastCall = [op |-> "new", key |-> 0, result |-> 0]

CacheInit == CacheConstructed(MaxSize)

CacheNext ==
    \/ getAny
    \/ setAny
    \/ clear

\* every component but the utilities, as constructed
ComponentInit ==
    /\ RiskInit /\ PipelineInit /\ RelayInit /\ StrategyInit
    /\ DiscoveryInit /\ MonitorInit

Init ==
    /\ ComponentInit /\ TriangleInit
    /\ OracleInit /\ WorkerInit /\ CacheInit

\* any trade-pair graph over the symbols
AnyGraphInit ==
    /\ ComponentInit
    /\ OracleInit /\ WorkerInit /\ CacheInit
    /\ symbolPairs \in SUBSET TradePairs
    /\ paths = {}
    /\ pathsPc = "built"

\* getTriangularPaths called on any trade-pair graph
TriangleSpec == AnyGraphInit /\ [][TriangleNext]_vars

\* a gas oracle and the blocks it reads
GasOracleSpec == Init /\ [][OracleNext]_vars

\* a worker pool of any size up to MaxConcurrency
AnyPoolInit ==
    /\ ComponentInit /\ TriangleInit /\ OracleInit /\ CacheInit
    /\ \E concurrency \in 1..MaxConcurrency : WorkerConstructed(concurrency)

WorkerPoolSpec == AnyPoolInit /\ [][WorkerNext]_vars

\* every worker call terminates
WorkerPoolFairSpec ==
    /\ WorkerPoolSpec
    /\ \A task \in Tasks : WF_vars(workerSettles(task))

\* an LRU cache of any size up to MaxSize
AnyCacheInit ==
    /\ ComponentInit /\ TriangleInit /\ OracleInit /\ WorkerInit
    /\ \E size \in 1..MaxSize : CacheConstructed(size)

LRUCacheSpec == AnyCacheInit /\ [][CacheNext]_vars

\* the risk controller driven through its public methods and its timer
RiskSpec == Init /\ [][RiskNext]_vars

\* the engine process and the chain
EngineSpec == Init /\ [][EngineNext]_vars

\* a caller of FlashbotsExecutor.executeWithFallback and the chain
RelaySpec == Init /\ [][RelayNext]_vars

\* the mempool monitor and its pending-transaction subscription
MempoolSpec == Init /\ [][MempoolNext]_vars

\* the strategy searches of successive scans
StrategySpec == Init /\ [][StrategyNext]_vars

\* pool discovery, the chain and a strategy cycle reading the pair list
DiscoverySpec == Init /\ [][DiscoveryNext]_vars

\* the engine process with the start of its mempool monitor, and the chain
StartupSpec == Init /\ [][StartupNext]_vars

\* the engine under the scheduling the runtime gives it: a continuation
\* runs once its promise has settled, an RPC request and a timer settle, and
\* the chain includes a transaction whose nonce is the signer's next one.
\* Neither a signal, nor an outside transaction, nor an RPC error is
\* bound to happen.
EngineFairSpec ==
    /\ EngineSpec
    /\ WF_vars(start)
    /\ WF_vars(mainLoopHead)
    /\ WF_vars(scanForOpportunities)
    /\ WF_vars(preflightChecks)
    /\ WF_vars(estimateGas)
    /\ WF_vars(buildTransaction)
    /\ WF_vars(simulateTransaction)
    /\ WF_vars(sendTransaction)
    /\ WF_vars(waitForReceipt)
    /\ WF_vars(cycleWait)
    /\ WF_vars(cycleError)
    /\ WF_vars(Mine)

(***************************************************************************)
(* Claims about the risk controller (checked under RiskSpec).              *)
(***************************************************************************)
BreakerReason == "Circuit breaker triggered"
HourlyReason == "Hourly trade limit reached"

\* a step in which validateTrade is called
ValidateCalled == validation.state # "awaiting" /\ validation' # validation

\* a step in which recordTradeResult pushes a trade
RecordCalled == Len(tradeHistory') = Len(tradeHistory) + 1

LastTrade(history) == history[Len(history)]

\* the losing trade of the circuit-breaker scenario: 0.01 ETH lost, 0.002
\* ETH of gas
ScenarioLoss == [profit |-> -12, gasCost |-> 2]

OnlyScenarioLosses(history) ==
    \A i \in 1..Len(history) : history[i] = ScenarioLoss

\* C1: once the circuit breaker is tripped, every step other than
\* resetCircuitBreaker (a record, the hourly tick, a parameter update, a
\* validation) leaves it tripped, and every validateTrade call made while
\* it is tripped returns a rejection.
C1_BreakerLatchedUntilReset ==
    [][ /\ (circuitBreakerTriggered /\ ~resetCircuitBreaker)
            => circuitBreakerTriggered'
        /\ (circuitBreakerTriggered /\ ValidateCalled)
            => /\ validation'.state = "returned"
               /\ ~validation'.valid
               /\ validation'.reason = BreakerReason ]_vars

\* the breaker tripped while enabled, was then disabled by a parameter
\* update, the hourly tick followed the last record, and a validation was
\* rejected for the breaker
C1_Witness ==
    /\ circuitBreakerTriggered
    /\ ~circuitBreakerEnabled
    /\ tradeHistory # <<>>
    /\ hourlyTradeCount = 0
    /\ validation.state = "returned"
    /\ validation.reason = BreakerReason

\* C6: with the breaker enabled and the 5 ETH cap, a record that extends a
\* history of nothing but 0.01 ETH losses (0.002 ETH gas) by one more such
\* loss leaves the breaker as it was when it is one of the first nine, and
\* tripped when it is the tenth.
C6_TripsAtTenthLoss ==
    [][ ( /\ RecordCalled
          /\ circuitBreakerEnabled
          /\ maxDrawdown = parseEther("5")
          /\ OnlyScenarioLosses(tradeHistory')
          /\ Len(tradeHistory') <= 10 )
        => IF Len(tradeHistory') < 10
           THEN circuitBreakerTriggered' = circuitBreakerTriggered
           ELSE circuitBreakerTriggered' ]_vars

\* ten scenario losses recorded, the breaker enabled at the default cap and
\* tripped
C6_Witness ==
    /\ Len(tradeHistory) = 10
    /\ OnlyScenarioLosses(tradeHistory)
    /\ circuitBreakerEnabled
    /\ maxDrawdown = parseEther("5")
    /\ currentDrawdown = 120
    /\ circuitBreakerTriggered

\* C7: the hourly counter counts the records since the last hourly tick
\* (a record adds one, the tick sets it to zero, nothing else changes it);
\* a validateTrade call made when the counter has reached maxTradesPerHour
\* is rejected, and one made when it is below the limit is not rejected for
\* the hourly limit, wherever the tick falls between records and
\* validations.
C7_HourlyLimit ==
    [][ /\ RecordCalled => hourlyTradeCount' = hourlyTradeCount + 1
        /\ resetHourlyCount => hourlyTradeCount' = 0
        /\ (~RecordCalled /\ ~resetHourlyCount)
            => hourlyTradeCount' = hourlyTradeCount
        /\ (ValidateCalled /\ hourlyTradeCount >= maxTradesPerHour)
            => (validation'.state = "returned" /\ ~validation'.valid)
        /\ (ValidateCalled /\ hourlyTradeCount < maxTradesPerHour)
            => validation'.reason # HourlyReason ]_vars

\* three trades recorded in the hour under a limit of three and a
\* validation rejected for the hourly limit
C7_Witness ==
    /\ maxTradesPerHour = 3
    /\ hourlyTradeCount = 3
    /\ Len(tradeHistory) >= 3
    /\ validation.state = "returned"
    /\ validation.reason = HourlyReason

\* C10: the drawdown is never negative; a losing record raises it by the
\* net loss and a record that is not losing lowers it by the net gain,
\* stopping at zero.
C10_DrawdownNonNegative ==
    /\ [](currentDrawdown >= 0)
    /\ [][ RecordCalled =>
            LET net == LastTrade(tradeHistory').profit
            IN  IF net < 0
                THEN currentDrawdown' = currentDrawdown - net
                ELSE currentDrawdown' = Max(currentDrawdown - net, 0) ]_vars

\* a gain larger than the drawdown accumulated by an earlier loss has been
\* recorded and the drawdown is zero
C10_Witness ==
    /\ Len(tradeHistory) >= 2
    /\ tradeHistory[1].profit < 0
    /\ LastTrade(tradeHistory).profit > 0
    /\ currentDrawdown = 0

(***************************************************************************)
(* Claims about the execution pipeline and the main loop (checked under    *)
(* EngineSpec, the liveness under EngineFairSpec).                         *)
(***************************************************************************)
\* a step in which the pipeline broadcasts a transaction
Submitted == Len(txs') = Len(txs) + 1

\* C2: the signer never has two broadcast transactions of the pipeline in
\* flight at once.
C2_AtMostOneInFlight == Cardinality(InFlight) <= 1

\* a transaction of an earlier cycle is still in flight and the pipeline has
\* refused the opportunity of a later cycle because of it
C2_Witness ==
    /\ \E h \in InFlight : txs[h].opp < cycleCount
    /\ lastResult.opp = cycleCount
    /\ lastResult.error = "Pending transaction exists"

\* C3: when the static call of an opportunity reverts, execute() returns
\* the rejection carrying the revert reason without broadcasting anything,
\* and every transaction broadcast is for the opportunity whose static call
\* has just succeeded.
C3_SimulationRevertNotSubmitted ==
    [][ /\ (pc = "simulate" /\ simResult' # simResult /\ ~simResult'.success)
            => /\ pc' = "cycleWait"
               /\ lastResult' =
                     Failure("Simulation failed: " \o simResult'.error)
               /\ simResult'.error \in SimulationReverts
               /\ txs' = txs
               /\ pendingTxs' = pendingTxs
        /\ Submitted
            => /\ simResult.success
               /\ simResult.opp = txs'[Len(txs')].opp ]_vars

\* execute() has returned a simulation rejection with the revert reason
\* for an opportunity, after an earlier opportunity was submitted, and no
\* transaction exists for the rejected one
C3_Witness ==
    /\ pc = "cycleWait"
    /\ lastResult.error = "Simulation failed: Insufficient profit"
    /\ ~simResult.success
    /\ txs # <<>>
    /\ \A h \in Hashes : txs[h].opp # lastResult.opp

\* C4: when execute() has returned the result of a transaction that was
\* confirmed or that reverted (the result carries its hash), the trade is in
\* the risk controller's history by the time the main loop is back at its
\* head.
C4_SettledTradesRecorded ==
    (pc = "loopHead" /\ lastResult.txHash # NoTx)
        => /\ tradeHistory # <<>>
           /\ Len(tradeHistory) >= successfulExecutions

\* C5: whatever happens to the opportunity of a cycle, while the engine is
\* running a later cycle begins.
C5_LaterCycleBegins ==
    \A c \in 1..(MaxCycles - 1) :
        [](cycleCount = c => <>(cycleCount > c \/ ~isRunning))

\* C9: with the private relay enabled, a transaction is broadcast to the
\* public mempool only from the fallback of executeWithFallback, that is
\* after the relay was found unavailable or the bundle failed.
C9_PrivateRelayFirst ==
    [][ (Submitted /\ flashbotsEnabled) => flashbotsPc = "public" ]_vars

\* C8: after a submission was refused with "nonce too low", the next
\* request is built with a nonce read from the chain after the refusal,
\* which is at least the next nonce the chain reported.
C8_NonceResetAfterNonceTooLow ==
    [][ ( /\ pc = "buildTransaction"
          /\ pc' = "simulate"
          /\ lastResult.error = "nonce too low" )
        => txParams'.nonce >= lastResult.nextNonce ]_vars

(***************************************************************************)
(* Claims about the strategy searches (checked under StrategySpec).        *)
(***************************************************************************)
\* the opportunities pushed in the running scan and those the scan returned
Emitted ==
    {opportunities[i] : i \in 1..Len(opportunities)}
        \cup {profitable[i] : i \in 1..Len(profitable)}

FinalLeg(o) == o.legs[Len(o.legs)]

\* C11: in every emitted opportunity, of whichever family and borrow size,
\* the final leg's amountOutMin is at least the borrow amount plus the
\* flash-loan premium of 5 bp plus one more basis point of the borrow
\* amount, and so strictly above break-even.
C11_FinalLegCoversCostPlusOneBp ==
    \A o \in Emitted :
        /\ BpsDenominator * (FinalLeg(o).amountOutMin - o.borrowAmount)
              >= o.borrowAmount * (FlashLoanPremiumBps + 1)
        /\ BpsDenominator * (FinalLeg(o).amountOutMin - o.borrowAmount)
              > o.borrowAmount * FlashLoanPremiumBps

\* a scan has returned a three-leg opportunity borrowing 0.1 cbBTC whose
\* last leg asks for 10006 units (10000 + 5 + 1)
C11_Witness ==
    \E i \in 1..Len(profitable) :
        /\ profitable[i].strategyType = "TRIANGULAR_ARB"
        /\ Len(profitable[i].legs) = 3
        /\ profitable[i].borrowAmount = 10000
        /\ FinalLeg(profitable[i]).amountOutMin = 10006

\* whether a final-leg output does not exceed the borrow amount plus the
\* 5 bp premium
WithinPremium(borrowAmount, totalReturn) ==
    BpsDenominator * totalReturn
        <= (BpsDenominator + FlashLoanPremiumBps) * borrowAmount

\* C12: no emitted opportunity has a final-leg output within the borrow
\* amount plus premium, and a pass of a search over a candidate whose final
\* output is within it pushes nothing: the candidate is dropped for its
\* quotes or at the premium test.
C12_LosingLoopNeverEmitted ==
    /\ [](\A o \in Emitted :
            ~WithinPremium(o.borrowAmount, FinalLeg(o).expectedAmountOut))
    /\ [][ ( /\ scanPc = "searching"
             /\ scanPc' = "searching"
             /\ WithinPremium(candidate'.borrowAmount, candidate'.totalReturn) )
           => /\ opportunities' = opportunities
              /\ candidate'.outcome \in {"no quotes", "no profit"} ]_vars

\* the loop 1 -> 0.99995 at a 5 bp premium was evaluated with its quotes
\* present and dropped at the premium test
C12_Witness ==
    /\ candidate.borrowAmount = 100000
    /\ candidate.totalReturn = 99995
    /\ candidate.outcome = "no profit"
    /\ opportunities = <<>>

(***************************************************************************)
(* Claims about pool discovery (checked under DiscoverySpec).              *)
(***************************************************************************)

\* refreshLiquidity has returned to its caller
RefreshCalled ==
    /\ discPc \in { "startRefresh", "fullScanRefresh", "tickRefresh" }
    /\ discPc' \in { "startScan", "running" }

AcceptableSnapshot(file) ==
    /\ file.state = "complete"
    /\ file.version = SnapshotVersion
    /\ file.ageDays <= MaxSnapshotAgeDays

\* C14: start() loads the snapshot and goes on to an incremental scan from
\* its lastScanBlock only if the snapshot exists, is at most 7 days old, has
\* the matching version and is structurally valid; otherwise it refuses the
\* load and runs a full scan.
C14_LoadOnlyAcceptableSnapshot ==
    [][ (discPc = "constructed" /\ discPc' # discPc) =>
            IF AcceptableSnapshot(snapshotFile)
            THEN /\ discPc' = "startRefresh"
                 /\ lastScanBlock' = snapshotFile.lastScanBlock
            ELSE discPc' = "fullScan" ]_vars

\* the closing savePools() of fullScan or of the periodic tick has returned
\* without the write being cut short
SaveCalled ==
    /\ discPc \in { "fullScanRefresh", "tickRefresh" }
    /\ discPc' = "running"
    /\ snapshotFile'.state # "torn"

\* C15: saving the catalog and loading it again within 7 days restores an
\* identical set of active pools and the same lastScanBlock.
C15_SaveLoadRoundTrip ==
    [][ SaveCalled =>
            /\ loadPools(snapshotFile')
            /\ ActivePools(snapshotFile'.pools) = ActivePools(discoveredPools')
            /\ snapshotFile'.lastScanBlock = lastScanBlock' ]_vars

\* C16: a save is atomic: whatever happens during it, the disk afterwards
\* holds either the previous complete snapshot or the new complete one.
C16_SaveAtomic ==
    [][ snapshotFile' # snapshotFile => snapshotFile'.state = "complete" ]_vars

\* a scan of the factories (full or incremental) has returned
ScanCalled ==
    \/ discPc = "fullScan" /\ discPc' = "fullScanRefresh"
    \/ discPc = "startScan" /\ discPc' = "running"
    \/ discPc = "running" /\ discPc' = "tickRefresh"

\* C17: a scan only appends pools that are not yet in the catalog: the
\* record of an address that is already present (liquidity, reserves,
\* active flag) is left as it was.
C17_ScanKeepsExistingRecords ==
    [][ ScanCalled =>
            \A a \in DOMAIN discoveredPools :
                /\ a \in DOMAIN discoveredPools'
                /\ discoveredPools'[a] = discoveredPools[a] ]_vars

\* C18: once a liquidity refresh or a scan that discovered new pools has
\* completed, the trade-pair graph has been rebuilt and contains exactly the
\* pools that are currently active.
C18_GraphIsActivePools ==
    [][ (\/ RefreshCalled
         \/ ScanCalled /\ DOMAIN discoveredPools' # DOMAIN discoveredPools) =>
            tradePairs' = ActivePools(discoveredPools') ]_vars

\* C19: the pair list a strategy cycle obtained from getArbitrageablePairs()
\* stays consistent for the whole cycle: a discovery tick or liquidity
\* refresh running meanwhile changes none of the pools, liquidity values or
\* active flags the cycle observes through it.
C19_CycleViewStable ==
    cycle.reading => Observed(cycle.pairs, discoveredPools) = cycle.seen

(***************************************************************************)
(* Claims about the mempool monitor (checked under StartupSpec).           *)
(***************************************************************************)

\* C20: a failure of the mempool observer (connection error, connect
\* timeout, refused connection) does not hold the engine: while the
\* observer waits to reconnect, the engine is not waiting for the observer
\* before it starts its main loop.
C20_ObserverFailureDoesNotHoldEngine ==
    wsPc = "backoff" => pc # "mempool"

\* the delay the claim gives to the n-th consecutive failure, n = 1, 2, ...:
\* 5 s for the first, 1.5 times the one before after that, at most 60 s
RECURSIVE ClaimedDelay(_)
ClaimedDelay(n) ==
    IF n = 1 THEN BaseDelay ELSE Min(MaxDelay, (ClaimedDelay(n - 1) * 3) \div 2)

\* C21: reconnect delays start at 5 s, grow by the factor 1.5 with every
\* consecutive failed attempt and never exceed 60 s; the observer stops
\* retrying after 10 consecutive failed attempts, after 20 once an HTTP 429
\* has been seen.
C21_BackoffSchedule ==
    /\ maxReconnectAttempts \in
           { MaxReconnectAttempts, RateLimitedReconnectAttempts }
    /\ reconnectAttempts <= maxReconnectAttempts
    /\ wsPc = "backoff" =>
           /\ backoffDelay(reconnectAttempts) = ClaimedDelay(reconnectAttempts)
           /\ backoffDelay(reconnectAttempts) <= MaxDelay

\* C22: the swaps of pending transactions reach the onSwap callbacks in the
\* order in which the pending transactions arrived
C22_SwapCallbacksInArrivalOrder ==
    \A i, j \in 1..Len(swapDelivered) :
        i < j => swapDelivered[i] < swapDelivered[j]

\* C23: once shutdown has begun the execution pipeline is handed no new
\* opportunity, and the process exits only when no transaction is in
\* flight (the shutdown path holds no timer, so no step of it is a wait of
\* 30 s that could excuse an exit with a transaction still in flight)
C23_ShutdownDrainsPipeline ==
    [][ /\ (signal = "stopping" /\ pc # "preflight") => pc' # "preflight"
        /\ (signal = "stopping" /\ pc # "exited" /\ pc' = "exited")
               => pendingTxs = {} ]_vars

\* C24: when the process shuts down, discovery is between two ticks (no
\* scan or refresh is cut off) and the snapshot file it leaves holds the
\* catalog and the last scanned block it had in memory
C24_StopSavesCatalog ==
    [][ (discPc # "constructed" /\ discPc' = "constructed") =>
            /\ discPc = "running"
            /\ snapshotFile'.state = "complete"
            /\ snapshotFile'.pools = discoveredPools
            /\ snapshotFile'.lastScanBlock = lastScanBlock ]_vars

\* where execute() is between its call and its return
ExecutePcs ==
    { "preflight", "estimateGas", "buildTransaction", "simulate", "submit",
      "wait" }

Triangles ==
    { t \in SUBSET Symbols :
        /\ Cardinality(t) = 3
        /\ \A x \in t : \A y \in t \ {x} : y \in pairsByToken(symbolPairs, x) }

\* C26: for a triple whose three edges all exist, getTriangularPaths
\* returns a triangle over it exactly when one of its vertices is
\* borrowable, and every triangle returned begins with a borrowable symbol
C26_TrianglesRotatedToBorrowable ==
    pathsPc = "returned" =>
        /\ \A t \in Triangles :
               (\E p \in paths : {p.a, p.b, p.c} = t)
                   <=> (t \cap borrowable # {})
        /\ \A p \in paths : p.a \in borrowable

\* the graph holds a triangle without a borrowable vertex, which was
\* dropped, and triangles whose first, second and third symbol in order is
\* the first borrowable one, which were returned
C26_Witness ==
    /\ pathsPc = "returned"
    /\ {1, 3, 5} \in Triangles
    /\ [a |-> 2, b |-> 3, c |-> 4] \in paths
    /\ [a |-> 2, b |-> 3, c |-> 1] \in paths
    /\ [a |-> 4, b |-> 1, c |-> 3] \in paths

\* C27: the local nonce changes only by being read from the chain's pending
\* count (the first use, or resetNonce in the main loop's catch block) or
\* by growing by one in the step that broadcasts a transaction; a step that
\* broadcasts nothing consumes no nonce
C27_NonceConsumedOnlyBySubmission ==
    [][ nonce' # nonce =>
            \/ nonce = NoNonce /\ nonce' = PendingCount
            \/ pc = "cycleError" /\ nonce' = PendingCount
            \/ Submitted /\ nonce # NoNonce /\ nonce' = nonce + 1
            \/ Submitted /\ nonce = NoNonce /\ nonce' = PendingCount + 1 ]_vars

\* C28: whenever execute() has returned and the main loop is between two
\* calls of it, the pipeline's in-flight set is empty
C28_InFlightEmptyOnReturn ==
    pc \in { "cycleWait", "loopHead", "scan" } => pendingTxs = {}

\* C29: an opportunity passes preflight only if the contract is not paused,
\* the network's gas price is at most maxGasPriceGwei, the opportunity is
\* at most 5 s old, no transaction of the pipeline is in flight, and the
\* signer's balance is at least 0.01 ETH
C29_PreflightPassConditions ==
    [][ (pc = "preflight" /\ pc' = "estimateGas") =>
            /\ preflightReadings.paused = "no"
            /\ preflightReadings.gasPrice <= maxGasPriceGwei
            /\ preflightReadings.ageMs <= MaxOpportunityAgeMs
            /\ pendingTxs = {}
            /\ InFlight = {}
            /\ preflightReadings.balance >= MinBalance ]_vars

\* the trades hold n consecutive losses somewhere
HasLossRun(trades, n) ==
    \E i \in 1..(Len(trades) - n + 1) :
        \A j \in i..(i + n - 1) : trades[j].profit < 0

\* C30: with the breaker enabled, a record after which the last 20 trades
\* hold a run of 10 consecutive losses, at their end or before it, leaves
\* the breaker tripped
C30_TripsOnLossRunAnywhere ==
    [][ ( /\ RecordCalled
          /\ circuitBreakerEnabled
          /\ HasLossRun(Slice(tradeHistory', RecentWindow),
                        ConsecutiveLossLimit) )
        => circuitBreakerTriggered' ]_vars

\* C31: with the breaker enabled, a record that leaves the drawdown at or
\* above maxDrawdown leaves the breaker tripped
C31_TripsAtDrawdownCap ==
    [][ ( /\ RecordCalled
          /\ circuitBreakerEnabled
          /\ currentDrawdown' >= maxDrawdown )
        => circuitBreakerTriggered' ]_vars

\* the cap was lowered to 0.05 ETH and five losses have taken the drawdown
\* over it: the breaker is tripped with no run of ten losses recorded
C31_Witness ==
    /\ circuitBreakerEnabled
    /\ maxDrawdown = parseEther("0.05")
    /\ Len(tradeHistory) = 5
    /\ currentDrawdown = 60
    /\ circuitBreakerTriggered

\* C32: when validateTrade returns its result for a candidate, the result
\* is an acceptance exactly if the breaker is not tripped, the hourly count
\* is below the limit, the candidate's liquidity is at least the floor, its
\* expected profit is at least twice its gas cost and the drawdown is below
\* the cap; a call that returns without awaiting returns a rejection
C32_AcceptsIffAllChecksPass ==
    [][ /\ (validation.state = "awaiting" /\ validation'.state = "returned")
            => LET params == Get(validation.params)
               IN  validation'.valid <=>
                      /\ ~circuitBreakerTriggered
                      /\ hourlyTradeCount < maxTradesPerHour
                      /\ params.liquidityUSD >= minLiquidityUSD
                      /\ params.expectedProfit >= 2 * params.gasCost
                      /\ currentDrawdown < maxDrawdown
        /\ (ValidateCalled /\ validation'.state = "returned")
            => ~validation'.valid ]_vars

\* C33: a pool whose liquidity read failed in the last refreshLiquidity is
\* inactive when that refresh has completed, and stays inactive until a
\* later refresh reads it
C33_FailedReadLeavesPoolInactive ==
    \A a \in readFailures :
        a \in DOMAIN discoveredPools => ~discoveredPools[a].isActive

\* the first block of the range the scan that is returning covers
ScanFrom == IF discPc = "fullScan" THEN 1 ELSE lastScanBlock + 1

C35_ScanBlockBehindFailedChunks ==
    \A c \in chunkErrors : lastScanBlock < c[2]

\* C36: for every emitted opportunity the final leg's amountOutMin does not
\* exceed that leg's expectedAmountOut: no opportunity is emitted that must
\* revert even when its quotes are met exactly
C36_FinalLegMinWithinQuote ==
    \A o \in Emitted :
        FinalLeg(o).amountOutMin <= FinalLeg(o).expectedAmountOut

(***************************************************************************)
(* Claims about the gas oracle (checked under GasOracleSpec).              *)
(***************************************************************************)
\* C37: predictNextBaseFee changes the current base fee by
\* baseFee * |gasUsed - target| / target / 8 with target = gasLimit / 2: the
\* prediction is above the current base fee when gasUsed exceeds the
\* target, below it when gasUsed is under the target, and equal to it at
\* the target
C37_PredictionFollowsTarget ==
    (oraclePc = "returned" /\ hasBaseFee(latestBlock)) =>
        LET block == Get(latestBlock)
            baseFee == block.baseFeePerGas
            target == block.gasLimit \div 2
            over == ((baseFee * (block.gasUsed - target)) \div target) \div 8
            under == ((baseFee * (target - block.gasUsed)) \div target) \div 8
        IN  /\ block.gasUsed > target =>
                /\ predictedBaseFee = baseFee + over
                /\ predictedBaseFee > baseFee
            /\ block.gasUsed < target =>
                /\ predictedBaseFee = baseFee - under
                /\ predictedBaseFee < baseFee
            /\ block.gasUsed = target => predictedBaseFee = baseFee

(***************************************************************************)
(* Claims about the worker pool (checked under WorkerPoolSpec and          *)
(* WorkerPoolFairSpec).                                                    *)
(***************************************************************************)
\* C38: the number of tasks running concurrently in a WorkerPool never
\* exceeds maxConcurrency, for any interleaving of execute calls and task
\* completions
C38_RunningWithinMaxConcurrency ==
    Cardinality(runningTasks) <= maxConcurrency

\* a pool of two workers runs two tasks while a third waits in the queue
C38_Witness ==
    /\ maxConcurrency = 2
    /\ Cardinality(runningTasks) = 2
    /\ Len(taskQueue) = 1

\* C39: every task passed to execute is started at most once and its
\* promise is settled at most once, by the worker's result or error after
\* it was started or by clearQueue while it was still queued; and, every
\* worker call terminating, every task passed to execute is eventually
\* settled
C39_StartedOnceSettledOnce ==
    /\ [](\A task \in Tasks :
            /\ started[task] <= 1
            /\ Len(settled[task]) <= 1
            /\ settled[task] \in { <<"resolved">>, <<"rejected">> } =>
                   started[task] = 1 /\ task \notin runningTasks
            /\ settled[task] = <<"cleared">> => started[task] = 0)
    /\ \A task \in Tasks : ~Fresh(task) ~> Len(settled[task]) = 1

\* one task was rejected by clearQueue while queued, the others were run and
\* settled by their worker
C39_Witness ==
    /\ settled[1] = <<"resolved">>
    /\ settled[2] = <<"cleared">>
    /\ settled[3] = <<"rejected">>
    /\ started[1] = 1 /\ started[2] = 0 /\ started[3] = 1

(***************************************************************************)
(* Claims about the LRU cache (checked under LRUCacheSpec).                *)
(***************************************************************************)
\* the entry of a key
EntryOf(entries, key) ==
    CHOOSE e \in { entries[i] : i \in 1..Len(entries) } : e.key = key

\* C40: LRUCache evicts an entry only when a new key is inserted into a
\* full cache, and the entry evicted is then the one least recently read or
\* written; clear() is not an eviction
C40_EvictsLeastRecentlyUsedOnInsert ==
    [][ lastCall'.op # "clear" =>
          \A key \in KeySet(cache) \ KeySet(cache') :
              /\ lastCall'.op = "set"
              /\ lastCall'.key \notin KeySet(cache)
              /\ Len(cache) >= maxSize
              /\ \A other \in KeySet(cache) :
                    EntryOf(cache, key).timestamp
                        <= EntryOf(cache, other).timestamp ]_vars

=============================================================================
